---- MODULE Spec2Model ----
(***************************************************************************)
(* Acquisition / merge / batch pipeline of yt-clip-notes.                  *)
(*                                                                         *)
(* Three engine variants are modelled:                                     *)
(*   "playlist" : PlaylistDownloadThread        (main_app_playlistSupport) *)
(*   "single"   : SingleVideoDownloadThread     (main_app_playlistSupport) *)
(*   "main_app" : DownloadThread                (main_app.py)              *)
(* and, in a specification of its own, the worker of the two older         *)
(* programs:                                                               *)
(*   "direct"   : DownloadThread                (main.py, main_ffmpeg.py)  *)
(*                                                                         *)
(* A worker step is the code between two blocking calls (metadata          *)
(* extraction, a transfer, the encoder subprocess, the mutex of the stop   *)
(* flag): an action fires when the blocking call the worker sits in        *)
(* returns or raises, and runs the handler up to the next blocking call.   *)
(* The outcome of every external call is a nondeterministic choice.        *)
(*                                                                         *)
(* Three specifications share the worker actions:                          *)
(*   Spec       : a batch or a single-video download with the window       *)
(*                thread (stop button, signal handlers); of the progress   *)
(*                hook only the calls at the end of a transfer are kept    *)
(*   SpecHook   : one job with every call of the progress hook             *)
(*   SpecSelect : one job on every catalog of a pool of formats            *)
(*   SpecTemp   : one job with the temporary files of its two streams, in  *)
(*                a folder that holds files of earlier jobs; the other     *)
(*                specifications leave the temporary files out             *)
(*   SpecSanitize : the filename sanitizer on every title of a pool        *)
(*   SpecDirect : one run of the direct-download worker with its hook      *)
(*   SpecLive   : a batch that is never cancelled, under weak fairness      *)
(*   SpecWindow : the window's download and stop buttons and its workers   *)
(*   SpecClips  : the window's clip list                                   *)
(***************************************************************************)
EXTENDS Integers, Sequences, FiniteSets, TLC

(*************************** bounds ****************************************)
\* longest playlist the flat extraction returns in the model
MaxJobs == 2
\* largest total size a transfer announces, in units of 20 MiB
MaxBytes == 3
\* longest catalog in the specification of the format selection
MaxFormats == 3

(*************************** program constants *****************************)
\* safe_title[:50] in PlaylistDownloadThread._download_single_video
TitleCap == 50
\* safe_title[:100] in YouTubeClipper.on_single_video_downloaded
RenameCap == 100
\* height threshold of the high resolution bucket
HighRes == 1080

(*************************** filename sanitizer ****************************)
\* characters for which str.isalnum() holds, as far as the model's titles go
Alnum == {"x", "y", "z", "1"}
\* the punctuation whitelist of the sanitizer
Whitelist == {" ", "-", "_", "."}

\* "".join(c for c in title if c.isalnum() or c in (' ', '-', '_', '.'))
KeepSafe(title) == SelectSeq(title, LAMBDA c : c \in Alnum \/ c \in Whitelist)

RECURSIVE LStrip(_)
\* str.lstrip(): drop leading blanks
LStrip(s) == IF s # << >> /\ Head(s) = " " THEN LStrip(Tail(s)) ELSE s

RECURSIVE RStrip(_)
\* str.rstrip(): drop trailing blanks
RStrip(s) ==
    IF s # << >> /\ s[Len(s)] = " " THEN RStrip(SubSeq(s, 1, Len(s) - 1)) ELSE s

\* str.strip()
Strip(s) == RStrip(LStrip(s))

\* s[:cap]
Truncate(s, cap) == IF Len(s) <= cap THEN s ELSE SubSeq(s, 1, cap)

\* variant of SafeTitle: the name is not cut
SafeTitleUncut(title, cap) == Strip(KeepSafe(title))

\* safe_title of a playlist job: filter, strip, then cut to the cap
SafeTitle(title, cap) == Truncate(Strip(KeepSafe(title)), cap)

(*************************** format selection ******************************)
\* a StreamFormat as yt-dlp reports it; codec "none" = no track of that kind
Fmt(id, vc, ac, h, tbr, abr, size, ext) ==
    [format_id |-> id, vcodec |-> vc, acodec |-> ac, height |-> h,
     tbr |-> tbr, abr |-> abr, filesize |-> size, ext |-> ext]

RECURSIVE LexLess(_, _)
\* Python tuple comparison a < b on tuples of equal length
LexLess(a, b) ==
    IF a = << >> \/ b = << >> THEN FALSE
    ELSE IF Head(a) # Head(b) THEN Head(a) < Head(b)
    ELSE LexLess(Tail(a), Tail(b))

\* the value None of a key that is present in the dictionary of a format
PyNone == -1

\* a > b on the items of a key: "yes", "no", or "raise" for the TypeError of an
\* order comparison with None
ItemGreater(a, b) ==
    IF a = PyNone \/ b = PyNone THEN "raise"
    ELSE IF a > b THEN "yes" ELSE "no"

RECURSIVE TupleGreater(_, _)
\* a > b on tuples of equal length: the items of the first position at which
\* the tuples differ are compared, equal items (None and None too) are skipped
TupleGreater(a, b) ==
    IF a = << >> \/ b = << >> THEN "no"
    ELSE IF Head(a) = Head(b) THEN TupleGreater(Tail(a), Tail(b))
    ELSE ItemGreater(Head(a), Head(b))

\* _find_best_formats raised
Raised == -1

RECURSIVE MaxFold(_, _, _, _)
\* the loop of max(): the items after the first are compared, in the order of
\* the list, with the maximum so far and replace it when they are greater
MaxFold(best, rest, key, scalar) ==
    IF rest = {} THEN best
    ELSE LET i == CHOOSE k \in rest : \A j \in rest : k <= j
             g == IF scalar THEN ItemGreater(key[i], key[best])
                  ELSE TupleGreater(key[i], key[best])
         IN  IF g = "raise" THEN Raised
             ELSE MaxFold(IF g = "yes" THEN i ELSE best, rest \ {i}, key, scalar)

\* the first position of S
First(S) == CHOOSE k \in S : \A j \in S : k <= j

\* Python max(items, key=...) with a tuple as key: the first item whose key no
\* other item exceeds. S is the set of candidate positions in the catalog, key
\* maps a position to its key; 0 stands for best = None (no candidate).
PyMax(S, key) ==
    IF S = {} THEN 0 ELSE MaxFold(First(S), S \ {First(S)}, key, FALSE)

\* max(items, key=...) with a single value as key
PyMaxScalar(S, key) ==
    IF S = {} THEN 0 ELSE MaxFold(First(S), S \ {First(S)}, key, TRUE)

VideoOnly(formats) ==
    {i \in DOMAIN formats : formats[i].vcodec # "none" /\ formats[i].acodec = "none"}
AudioOnly(formats) ==
    {i \in DOMAIN formats : formats[i].acodec # "none" /\ formats[i].vcodec = "none"}
Combined(formats) ==
    {i \in DOMAIN formats : formats[i].vcodec # "none" /\ formats[i].acodec # "none"}
\* SingleVideoDownloadThread: "Allow any audio format"
AnyAudio(formats) == {i \in DOMAIN formats : formats[i].acodec # "none"}

\* f.get('height', 0) >= 1080 raises for a height that is None
HeightRaises(formats, S) == \E i \in S : formats[i].height = PyNone

\* variant of HighResOf: the comparison with the threshold is turned round
HighResOfBelow(formats, S) == {i \in S : formats[i].height <= HighRes}

\* high_res_videos = [f for f in video_formats if f.get('height', 0) >= 1080]
HighResOf(formats, S) == {i \in S : formats[i].height >= HighRes}

B2N(b) == IF b THEN 1 ELSE 0

\* the exception of _find_best_formats, as a pick
RaisedPick == [video |-> Raised, audio |-> Raised]

\* return best_video, best_audio, unless one of the two max() calls raised
Picks(v, a) == IF v = Raised \/ a = Raised THEN RaisedPick ELSE [video |-> v, audio |-> a]

\* DownloadThread._find_best_formats (main_app.py)
FindBestFormatsMainApp(formats) ==
    LET vf == VideoOnly(formats)
        af == AudioOnly(formats)
        hi == HighResOf(formats, vf)
        k3 == [i \in DOMAIN formats |-> <<formats[i].height, formats[i].tbr, formats[i].filesize>>]
        k2 == [i \in DOMAIN formats |-> <<formats[i].height, formats[i].tbr>>]
        ka == [i \in DOMAIN formats |-> <<formats[i].abr, formats[i].filesize>>]
    IN  IF HeightRaises(formats, vf) THEN RaisedPick
        ELSE Picks(IF hi # {} THEN PyMax(hi, k3) ELSE PyMax(vf, k2), PyMax(af, ka))

\* PlaylistDownloadThread._find_best_formats
FindBestFormatsPlaylist(formats) ==
    LET vf == VideoOnly(formats)
        af == AudioOnly(formats)
        hi == HighResOf(formats, vf)
        k2 == [i \in DOMAIN formats |-> <<formats[i].height, formats[i].tbr>>]
        ka == [i \in DOMAIN formats |-> formats[i].abr]
    IN  IF HeightRaises(formats, vf) THEN RaisedPick
        ELSE Picks(IF hi # {} THEN PyMax(hi, k2) ELSE PyMax(vf, k2), PyMaxScalar(af, ka))

\* variant of FindBestFormatsSingle: combined formats are not looked at first
FindBestFormatsSingleNoCombined(formats) ==
    LET vf == VideoOnly(formats)
        af == AnyAudio(formats)
        hi == HighResOf(formats, vf)
        k3 == [i \in DOMAIN formats |-> <<formats[i].height, formats[i].tbr, formats[i].filesize>>]
        k2 == [i \in DOMAIN formats |-> <<formats[i].height, formats[i].tbr>>]
        ka == [i \in DOMAIN formats |-> <<B2N(formats[i].ext = "m4a"), formats[i].abr, formats[i].filesize>>]
    IN  IF HeightRaises(formats, vf) THEN RaisedPick
        ELSE Picks(IF hi # {} THEN PyMax(hi, k3) ELSE PyMax(vf, k2), PyMax(af, ka))

\* SingleVideoDownloadThread._find_best_formats
FindBestFormatsSingle(formats) ==
    LET cf == Combined(formats)
        vf == VideoOnly(formats)
        af == AnyAudio(formats)
        hi == HighResOf(formats, vf)
        k3 == [i \in DOMAIN formats |-> <<formats[i].height, formats[i].tbr, formats[i].filesize>>]
        k2 == [i \in DOMAIN formats |-> <<formats[i].height, formats[i].tbr>>]
        ka == [i \in DOMAIN formats |-> <<B2N(formats[i].ext = "m4a"), formats[i].abr, formats[i].filesize>>]
    IN  IF cf # {} THEN Picks(PyMax(cf, k3), 0)
        ELSE IF HeightRaises(formats, vf) THEN RaisedPick
        ELSE Picks(IF hi # {} THEN PyMax(hi, k3) ELSE PyMax(vf, k2), PyMax(af, ka))

FindBestFormats(v, formats) ==
    CASE v = "playlist" -> FindBestFormatsPlaylist(formats)
      [] v = "single"   -> FindBestFormatsSingle(formats)
      [] OTHER          -> FindBestFormatsMainApp(formats)

\* variant of SelectionEmpty: falls back only when both picks are missing
SelectionEmptyBoth(pick) == pick.video = 0 /\ pick.audio = 0

\* "if not video_fmt or not audio_fmt": at least one pick is missing
SelectionEmpty(pick) == pick.video = 0 \/ pick.audio = 0

(*************************** progress hook *********************************)
\* Progress values are kept in tenths of a percent and byte counters in units
\* of 20 MiB (1024 * 1024 * 20 bytes), so that every value the hooks compute
\* for the counters of the model is an integer.
Pct(n) == 10 * n

\* value of the hook's dictionary d before the first call of a transfer
NoHook ==
    [status |-> "none", downloaded_bytes |-> 0, total_bytes |-> 0,
     total_bytes_estimate |-> 0]

\* the dictionary yt-dlp passes when a file has been written
FinishedHook == [NoHook EXCEPT !.status = "finished"]

\* no progress.emit
NoValue == -1

\* d.get('total_bytes') or d.get('total_bytes_estimate', 0)
TotalOf(d) == IF d.total_bytes # 0 THEN d.total_bytes ELSE d.total_bytes_estimate

Min(a, b) == IF a <= b THEN a ELSE b

\* the rescaling of percent = 100 * num / den by phase: video onto 0..60,
\* audio onto 60..90, anything else onto 0..90
Adjusted(phase, num, den) ==
    CASE phase = "video" -> (Pct(60) * num) \div den
      [] phase = "audio" -> Pct(60) + (Pct(30) * num) \div den
      [] OTHER           -> (Pct(90) * num) \div den

\* value emitted on the 'finished' status
FinishedValue(phase) == IF phase = "video" THEN Pct(60) ELSE Pct(90)

\* DownloadThread._progress_hook (main_app.py)
ProgressHookMainApp(d, phase) ==
    IF d.status = "downloading"
    THEN IF TotalOf(d) # 0
         THEN Adjusted(phase, d.downloaded_bytes, TotalOf(d))
         ELSE NoValue
    ELSE IF d.status = "finished" THEN FinishedValue(phase)
    ELSE NoValue

\* PlaylistDownloadThread._progress_hook: no 'finished' branch
ProgressHookPlaylist(d, stream_type) ==
    IF d.status = "downloading" /\ TotalOf(d) # 0
    THEN Adjusted(stream_type, d.downloaded_bytes, TotalOf(d))
    ELSE NoValue

\* variant of ProgressHookSingle: the estimate without a total is not capped
ProgressHookSingleNoCap(d, phase) ==
    IF d.status = "downloading"
    THEN IF TotalOf(d) > 0
         THEN Adjusted(phase, d.downloaded_bytes, TotalOf(d))
         ELSE Adjusted(phase, d.downloaded_bytes, 100)
    ELSE IF d.status = "finished" THEN FinishedValue(phase)
    ELSE NoValue

\* SingleVideoDownloadThread._progress_hook: without a total,
\* percent = min(90, (downloaded / (1024 * 1024)) / 20)
ProgressHookSingle(d, phase) ==
    IF d.status = "downloading"
    THEN IF TotalOf(d) > 0
         THEN Adjusted(phase, d.downloaded_bytes, TotalOf(d))
         ELSE Adjusted(phase, Min(90, d.downloaded_bytes), 100)
    ELSE IF d.status = "finished" THEN FinishedValue(phase)
    ELSE NoValue

ProgressHookOf(v, d, phase) ==
    CASE v = "playlist" -> ProgressHookPlaylist(d, phase)
      [] v = "single"   -> ProgressHookSingle(d, phase)
      [] OTHER          -> ProgressHookMainApp(d, phase)

\* the 'format' option of the single-format download of each variant
FallbackFormat(v) ==
    CASE v = "playlist" -> "best[ext=mp4]/best"
      [] v = "single"   ->
           "bestvideo[ext=mp4][height<=2160]+bestaudio[ext=m4a]/best[ext=mp4]/bestaudio[ext=m4a]/best"
      [] OTHER          ->
           "bestvideo[ext=mp4][height<=2160]+bestaudio[ext=m4a]/best[ext=mp4][height<=2160]/bestvideo+bestaudio/best"

\* fmt['format_id'] of a pick
FormatId(formats, i) == IF i \in DOMAIN formats THEN formats[i].format_id ELSE "None"

(*************************** inputs ****************************************)
V1080 == Fmt("137", "avc1", "none", 1080, 2000, 0, 50, "mp4")
V720  == Fmt("136", "avc1", "none", 720, 1200, 0, 30, "mp4")
A128  == Fmt("140", "none", "mp4a", 0, 128, 128, 4, "m4a")
A160  == Fmt("251", "none", "opus", 0, 160, 160, 5, "webm")
C360  == Fmt("18", "avc1", "mp4a", 360, 600, 96, 10, "mp4")

\* the catalogs a source answers with
Catalogs ==
    { << >>,
      <<V1080, A128>>,
      <<V720, V1080, A128, A160>>,
      <<V720>>,
      <<A128>>,
      <<C360>>,
      <<V1080, A128, C360>> }

\* further formats for the specification of the format selection: ties on
\* (height, tbr) and on abr that only the file size breaks, a third height,
\* and an m4a track of lower bitrate than the webm track
V1080b == Fmt("299", "avc1", "none", 1080, 2000, 0, 60, "mp4")
V1440  == Fmt("271", "vp9", "none", 1440, 2000, 0, 40, "webm")
A128b  == Fmt("139", "none", "mp4a", 0, 128, 128, 6, "m4a")
\* formats with a key that is present with the value None: the file size of
\* a video stream that ties with V1080 on height and bitrate, the height of a
\* video stream, the bitrate of an audio stream
V1080n == Fmt("399", "av01", "none", 1080, 2000, 0, PyNone, "mp4")
VNoneH == Fmt("616", "vp9", "none", PyNone, 2000, 0, 40, "webm")
ANone  == Fmt("233", "none", "mp4a", 0, PyNone, PyNone, 4, "m4a")
FormatPool == {V1080, V1080b, V720, V1440, A128, A128b, A160, C360, V1080n, VNoneH, ANone}

\* byte counters yt-dlp reports, in units of 20 MiB: small ones around the
\* totals, and one of a download of several gigabytes
HugeBytes == 200
Downloaded == 0..(MaxBytes + 1) \cup {HugeBytes}
Totals == 0..MaxBytes

\* the dictionaries of the 'downloading' status; a missing or None total is 0
HookInputs ==
    [status : {"downloading"}, downloaded_bytes : Downloaded,
     total_bytes : Totals, total_bytes_estimate : Totals]

\* playlist entries: E1 and E2 sanitize to the same file name, E1 and E3
\* carry the same video id
E1 == [title |-> <<"x">>, video_id |-> "a"]
E2 == [title |-> <<"x", "?">>, video_id |-> "b"]
E3 == [title |-> <<" ", "y", "1">>, video_id |-> "a"]
Entries == {E1, E2, E3}

RECURSIVE SeqsUpTo(_, _)
\* all sequences over S of length 0..n
SeqsUpTo(S, n) ==
    IF n = 0 THEN {<< >>}
    ELSE LET shorter == SeqsUpTo(S, n - 1)
         IN  shorter \cup {Append(s, e) : s \in {t \in shorter : Len(t) = n - 1}, e \in S}

\* an entry of info['entries'] that is None
NoneEntry == [title |-> << >>, video_id |-> "None"]

\* the lists info['entries'] that extract_flat can return
RawPlaylists == SeqsUpTo(Entries \cup {NoneEntry}, MaxJobs)

\* for entry in info['entries']: if entry is None: continue
NotNone(raw) == SelectSeq(raw, LAMBDA e : e # NoneEntry)

\* every catalog of up to MaxFormats formats of the pool, in every order
AllCatalogs == SeqsUpTo(FormatPool, MaxFormats)

\* longest run of characters in front of and behind the filling of a title
MaxAffix == 2

\* the characters of the titles: a letter, a blank, a character that is
\* neither alphanumeric nor whitelisted, and the path separator
TitleChars == {"x", " ", "?", "/"}

RECURSIVE Fill(_)
\* n letters
Fill(n) == IF n = 0 THEN << >> ELSE <<"z">> \o Fill(n - 1)

\* lengths of the filling: none, and around the two caps
FillLengths == {0, TitleCap - 1, TitleCap, RenameCap - 1, RenameCap}

\* the titles handed to the sanitizer
Titles ==
    {a \o Fill(n) \o b : a \in SeqsUpTo(TitleChars, MaxAffix),
                         b \in SeqsUpTo(TitleChars, MaxAffix), n \in FillLengths}

\* name of the single-video output, os.path.join(folder, "video.mp4")
VideoName == <<"v">>

\* output file names (without folder and ".mp4") the model can touch
Names == {SafeTitle(e.title, TitleCap) : e \in Entries} \cup {VideoName}

FileStates == {"absent", "empty", "full"}

(*************************** state *****************************************)
VARIABLES
    variant,          \* which engine runs: "playlist", "single", "main_app"
    pc,               \* the blocking call the worker thread sits in
    idx,              \* position of the for loop of PlaylistDownloadThread.run
    playlist_videos,  \* the PlaylistInfo objects, shared by worker and window
    should_stop,      \* PlaylistDownloadThread.should_stop (under the mutex)
    ui,               \* window thread: "idle", or "stopping" inside stop_download
    ui_videos,        \* YouTubeClipper.playlist_videos: video_id -> object (0 = no key)
    signals,          \* every Qt signal the worker has emitted, in order
    handled,          \* how many of them the window thread has delivered
    fs,               \* output folder: file name -> "absent" | "empty" | "full"
    info,             \* formats of the job in progress
    pick,             \* result of _find_best_formats for the job in progress
    phases,           \* phases the job in progress has entered, in order
    faults,           \* phases of the job in progress that failed
    merge_rc,         \* encoder exit code of the job in progress, -1 = not run
    outcome,          \* "none", "running", then "Completed" (video_completed /
                      \* done emitted) or "Error" (video_error / error emitted)
    job,              \* index of the playlist job these job variables describe
    stop_started,     \* jobs already started when stop was requested
    source,           \* the catalogs the remote source may answer with
    progress,         \* last value the job in progress emitted on its progress
                      \* signal, in tenths of a percent; -1 = none yet
    prog_phase,       \* phase the job was in when it emitted that value
    hook_d,           \* last dictionary yt-dlp passed to the progress hook
                      \* during the transfer in progress
    hook_v,           \* value that call of the hook emitted, -1 = none
    requests,         \* 'format' option of every transfer the job has started
    entries,          \* info['entries'] as the flat extraction returned it
    title,            \* a title handed to the filename sanitizer
    safe_title,       \* safe_title of _download_single_video for this title
    rename_title,     \* safe_title of on_single_video_downloaded for this title
    tracked,          \* whether this behaviour follows the temporary files
    temp_files,       \* files of the output folder whose names start with a
                      \* temp_path of the job in progress
    written,          \* those of them a transfer of the job in progress wrote
    video_file,       \* what _download_stream returned for the video stream
    audio_file,       \* what _download_stream returned for the audio stream
    cleanup,          \* "none", or how the removal of the two files after a
                      \* merge with exit code 0 went: "done" or "failed"
    download_btn,     \* window: the download button is enabled
    stop_btn,         \* window: the stop button is enabled
    threads,          \* the download workers the window has started, in order
    download_thread,  \* self.download_thread: position in threads, 0 = not set
    current_playlist_thread,  \* likewise, 0 = None
    timestamps,       \* self.timestamps: the saved clips, pairs <<start, end>>
    current_start,    \* self.current_start, NoStart = None
    duration,         \* media_player.duration() / 1000
    video_path        \* self.video_path

vars == <<variant, pc, idx, playlist_videos, should_stop, ui, ui_videos, signals,
          handled, fs, info, pick, phases, faults, merge_rc, outcome, job, stop_started,
          source, progress, prog_phase, hook_d, hook_v, requests, entries,
          title, safe_title, rename_title, tracked, temp_files, written, video_file,
          audio_file, cleanup, download_btn, stop_btn, threads, download_thread,
          current_playlist_thread, timestamps, current_start, duration, video_path>>

\* the variables of the window's download buttons and of its clip list
windowvars == <<download_btn, stop_btn, threads, download_thread, current_playlist_thread>>
clipvars == <<timestamps, current_start, duration, video_path>>

\* the variables of the filename sanitizer
sanitizer == <<title, safe_title, rename_title>>

\* the variables of the temporary files
tempvars == <<temp_files, written, video_file, audio_file, cleanup>>

jobvars == <<info, pick, phases, faults, merge_rc, outcome, job, progress, prog_phase,
             hook_d, hook_v, requests, tempvars>>

NoPath == <<"/">>
NoPick == [video |-> 0, audio |-> 0]
Ids == {e.video_id : e \in Entries}

\* PlaylistInfo.__init__
PlaylistInfo(e) ==
    [title |-> e.title, video_id |-> e.video_id, status |-> "pending",
     file_path |-> NoPath]

Signal(s, id, j, path) == [sig |-> s, id |-> id, job |-> j, path |-> path]

N == Len(playlist_videos)
Jobs == 1..N
Running == pc \notin {"finished", "terminated"}
Count(s) == Cardinality({k \in DOMAIN signals : signals[k].sig = s})

\* os.path.exists(output_path)
Exists(f, name) == f[name] # "absent"

\* output_path of a playlist job (folder and ".mp4" left out)
OutputPath(i) == SafeTitle(playlist_videos[i].title, TitleCap)

\* states ffmpeg -y can leave at the destination: it creates or overwrites
\* the file, or fails before opening it
AfterEncoder(f, name) == {"empty", "full", f[name]}

\* states a yt-dlp transfer that returned can leave at outtmpl: the file was
\* written, or yt-dlp skipped it (already there) or wrote under another name
AfterTransfer(f, name) == {"full", f[name]}

\* the worker sits in ydl.download
TransferPcs == {"video", "audio", "simple", "s_video", "s_audio", "s_fallback"}

\* stream_type of the playlist hook, self.current_phase of the other two
CurrentPhase(p) ==
    CASE p \in {"video", "s_video"} -> "video"
      [] p \in {"audio", "s_audio"} -> "audio"
      [] OTHER                      -> ""

\* progress.emit(v) / video_progress.emit(video_id, v) in phase ph
Emit(v, ph) == progress' = v /\ prog_phase' = ph

NoProgress == UNCHANGED <<progress, prog_phase>>

\* one call of the progress hook with dictionary d
HookCall(d) ==
    LET v == ProgressHookOf(variant, d, CurrentPhase(pc))
    IN  IF v = NoValue THEN NoProgress ELSE Emit(v, phases[Len(phases)])

\* ydl.download returned: the hook has seen the 'finished' status
TransferReturned == HookCall(FinishedHook)

\* the transfer step failed: ydl.download raised, or it returned (the hook
\* has seen 'finished') and the file was not found afterwards
TransferRaised == NoProgress \/ HookCall(FinishedHook)

\* the 'format' option of the transfer the worker enters at pc p
Requested(p, formats, pk) ==
    CASE p \in {"video", "s_video"} -> FormatId(formats, pk.video)
      [] p \in {"audio", "s_audio"} -> FormatId(formats, pk.audio)
      [] OTHER                      -> FallbackFormat(variant)

\* the step leaves its blocking call: the next transfer, if one follows, is
\* set up with its 'format' option and has not called the hook yet
EnterTransfer ==
    /\ hook_d' = NoHook
    /\ hook_v' = NoValue
    /\ requests' = IF pc' \in TransferPcs
                   THEN Append(requests, Requested(pc', info', pick'))
                   ELSE requests

\* progress.emit of _merge_streams: SingleVideoDownloadThread emits 90 before
\* it starts the encoder and 100 after exit code 0; the other two emit nothing
MergeProgress(rc) ==
    IF variant # "single" THEN NoProgress
    ELSE IF rc = 0 THEN Emit(Pct(100), "Merge")
    ELSE IF rc = 1 THEN Emit(Pct(90), "Merge")
    ELSE NoProgress \/ Emit(Pct(90), "Merge")

(*************************** temporary files *******************************)
\* File names are sequences of pieces: the characters of the base name, then
\* "_temp_video" or "_temp_audio", then what follows.

\* base_name: output_path without its extension
BaseName == IF variant = "playlist" THEN OutputPath(idx) ELSE VideoName

\* video_temp / audio_temp: f"{base_name}_temp_video", f"{base_name}_temp_audio"
TempPath(kind) == BaseName \o <<IF kind = "video" THEN "_temp_video" ELSE "_temp_audio">>

\* the format a transfer of this kind downloads
PickOf(kind) == IF kind = "video" THEN info[pick.video] ELSE info[pick.audio]

\* 'outtmpl': f"{temp_path}.%(ext)s"
OutTmpl(kind) == TempPath(kind) \o <<PickOf(kind).ext>>

\* file.startswith(os.path.basename(temp_path))
StartsWith(file, prefix) ==
    Len(prefix) <= Len(file) /\ SubSeq(file, 1, Len(prefix)) = prefix

\* no job has touched the temporary files yet
NoTemp ==
    /\ written = {} /\ video_file = NoPath /\ audio_file = NoPath
    /\ cleanup = "none"

\* a job starts: the folder keeps what earlier jobs left in it
NewJobTemp ==
    /\ temp_files' = temp_files
    /\ written' = {} /\ video_file' = NoPath /\ audio_file' = NoPath
    /\ cleanup' = "none"

\* _download_stream returned: yt-dlp has written outtmpl, or has left a file
\* of this name that was there already as it is; the loop over os.listdir,
\* whose order is arbitrary, returns a file whose name starts with temp_path
DownloadStream(kind) ==
    /\ temp_files' = temp_files \cup {OutTmpl(kind)}
    /\ \/ written' = written \cup {OutTmpl(kind)}
       \/ OutTmpl(kind) \in temp_files /\ written' = written
    /\ \E file \in {f \in temp_files' : StartsWith(f, TempPath(kind))} :
          IF kind = "video"
          THEN video_file' = file /\ audio_file' = audio_file
          ELSE audio_file' = file /\ video_file' = video_file
    /\ cleanup' = cleanup

\* _download_stream raised: the transfer may have left its file behind
DownloadStreamRaised(kind) ==
    /\ \/ UNCHANGED <<temp_files, written>>
       \/ /\ temp_files' = temp_files \cup {OutTmpl(kind)}
          /\ written' = written \cup {OutTmpl(kind)}
    /\ UNCHANGED <<video_file, audio_file, cleanup>>

\* variant of CleanUp: the audio file is not removed
CleanUpVideoOnly ==
    /\ temp_files' = temp_files \ {video_file}
    /\ cleanup' = "done"
    /\ UNCHANGED <<written, video_file, audio_file>>

\* _merge_streams after exit code 0: os.remove(video_file), then
\* os.remove(audio_file), inside "try ... except Exception: pass"; the first
\* removal that raises ends the block
CleanUp ==
    /\ \/ /\ temp_files' = temp_files \ {video_file, audio_file}
          /\ cleanup' = "done"
       \/ /\ temp_files' = temp_files
          /\ cleanup' = "failed"
       \/ /\ temp_files' = temp_files \ {video_file}
          /\ cleanup' = "failed"
    /\ UNCHANGED <<written, video_file, audio_file>>

\* what the step of the worker does to the temporary files
TempStep ==
    IF ~tracked THEN UNCHANGED tempvars
    ELSE IF pc \in {"video", "s_video"}
         THEN IF pc' \in {"audio", "s_audio"}
              THEN DownloadStream("video") ELSE DownloadStreamRaised("video")
    ELSE IF pc \in {"audio", "s_audio"}
         THEN IF pc' \in {"merge", "s_merge"}
              THEN DownloadStream("audio") ELSE DownloadStreamRaised("audio")
    ELSE IF pc \in {"merge", "s_merge"} /\ merge_rc' = 0 THEN CleanUp
    ELSE UNCHANGED tempvars

\* current_start is None
NoStart == -1

\* the window has started no worker
NoWindow ==
    /\ download_btn = TRUE /\ stop_btn = FALSE /\ threads = << >>
    /\ download_thread = 0 /\ current_playlist_thread = 0

\* no video is loaded and no clip is marked
NoClips ==
    /\ timestamps = << >> /\ current_start = NoStart /\ duration = 0
    /\ video_path = ""

\* no title has been handed to the sanitizer
NoTitle == title = << >> /\ safe_title = NoPath /\ rename_title = NoPath

Init ==
    /\ NoWindow /\ NoClips
    /\ variant \in {"playlist", "single", "main_app"}
    /\ pc = IF variant = "playlist" THEN "extract" ELSE "s_start"
    /\ idx = 0
    /\ playlist_videos = << >>
    /\ should_stop = FALSE
    /\ ui = "idle"
    /\ ui_videos = [id \in Ids |-> 0]
    /\ signals = << >>
    /\ handled = 0
    /\ fs \in [Names -> {"absent", "full"}]
    /\ \A n \in Names : (n = VideoName) = (variant = "playlist") => fs[n] = "absent"
    /\ info = << >>
    /\ pick = NoPick
    /\ phases = << >>
    /\ faults = {}
    /\ merge_rc = -1
    /\ outcome = "none"
    /\ job = 0
    /\ stop_started = {}
    /\ source = Catalogs
    /\ progress = NoValue
    /\ prog_phase = ""
    /\ hook_d = NoHook
    /\ hook_v = NoValue
    /\ requests = << >>
    /\ entries = << >>
    /\ NoTitle
    /\ NoTemp /\ tracked = FALSE /\ temp_files = {}

(*************************** PlaylistDownloadThread ************************)
\* variant of Extract: the job list is stored but not published
ExtractPublishesNothing ==
    /\ variant = "playlist" /\ pc = "extract"
    /\ \E raw \in RawPlaylists :
          /\ entries' = raw
          /\ IF NotNone(raw) = << >>
             THEN /\ signals' = Append(signals, Signal("error", "", 0, NoPath))
                  /\ pc' = "finished"
                  /\ UNCHANGED <<idx, playlist_videos>>
             ELSE /\ playlist_videos' = [k \in DOMAIN NotNone(raw) |-> PlaylistInfo(NotNone(raw)[k])]
                  /\ UNCHANGED signals
                  /\ idx' = 1
                  /\ pc' = "check"
    /\ UNCHANGED <<variant, windowvars, clipvars, source, sanitizer, tracked, should_stop, ui, ui_videos, handled, fs, jobvars,
                   stop_started>>

\* run, step 1: _extract_playlist_info returned. It returned None (the
\* extraction raised or the result has no 'entries') or the list of the
\* PlaylistInfo objects built from the entries that are not None; an empty list
\* is reported like None (error.emit, return), any other list is stored and
\* published (playlist_info.emit) before the for loop starts.
Extract ==
    /\ variant = "playlist" /\ pc = "extract"
    /\ \/ /\ entries' = << >>
          /\ signals' = Append(signals, Signal("error", "", 0, NoPath))
          /\ pc' = "finished"
          /\ UNCHANGED <<idx, playlist_videos>>
       \/ \E raw \in RawPlaylists :
          /\ entries' = raw
          /\ IF NotNone(raw) = << >>
             THEN /\ signals' = Append(signals, Signal("error", "", 0, NoPath))
                  /\ pc' = "finished"
                  /\ UNCHANGED <<idx, playlist_videos>>
             ELSE /\ playlist_videos' = [k \in DOMAIN NotNone(raw) |-> PlaylistInfo(NotNone(raw)[k])]
                  /\ signals' = Append(signals, Signal("playlist_info", "", 0, NoPath))
                  /\ idx' = 1
                  /\ pc' = "check"
    /\ UNCHANGED <<variant, windowvars, clipvars, source, sanitizer, tracked, should_stop, ui, ui_videos, handled, fs, jobvars,
                   stop_started>>

\* video_info.status = ...
SetStatus(videos, i, s) == [videos EXCEPT ![i].status = s]

\* _download_single_video up to the first blocking call (_get_video_info)
StartJob ==
    /\ playlist_videos' = SetStatus(playlist_videos, idx, "downloading")
    /\ info' = << >>
    /\ pick' = NoPick
    /\ phases' = <<"Info">>
    /\ faults' = {}
    /\ merge_rc' = -1
    /\ outcome' = "running"
    /\ job' = idx
    /\ progress' = NoValue
    /\ prog_phase' = ""
    /\ hook_d' = NoHook
    /\ hook_v' = NoValue
    /\ requests' = << >>
    /\ NewJobTemp
    /\ pc' = "info"

\* variant of Check: playlist_completed is emitted on the cancelled return too
CheckEmitsOnStop ==
    /\ variant = "playlist" /\ pc = "check"
    /\ IF idx > N \/ should_stop
       THEN /\ signals' = Append(signals, Signal("playlist_completed", "", 0, NoPath))
            /\ pc' = "finished"
            /\ UNCHANGED <<playlist_videos, jobvars>>
       ELSE /\ StartJob
            /\ UNCHANGED signals
    /\ UNCHANGED <<variant, windowvars, clipvars, source, entries, sanitizer, tracked, idx, should_stop, ui, ui_videos, handled, fs, stop_started>>

\* run, head of the for loop: the iterator is exhausted (playlist_completed is
\* emitted), or the stop flag, read under the mutex, is set (return), or the
\* next entry is handed to _download_single_video
Check ==
    /\ variant = "playlist" /\ pc = "check"
    /\ IF idx > N
       THEN /\ signals' = Append(signals, Signal("playlist_completed", "", 0, NoPath))
            /\ pc' = "finished"
            /\ UNCHANGED <<playlist_videos, jobvars>>
       ELSE IF should_stop
            THEN /\ pc' = "finished"
                 /\ UNCHANGED <<signals, playlist_videos, jobvars>>
            ELSE /\ StartJob
                 /\ UNCHANGED signals
    /\ UNCHANGED <<variant, windowvars, clipvars, source, entries, sanitizer, tracked, idx, should_stop, ui, ui_videos, handled, fs, stop_started>>

\* variant of JobFailed: the except clause forgets video_info.status
JobFailedKeepsStatus(f) ==
    /\ UNCHANGED playlist_videos
    /\ signals' = Append(signals, Signal("video_error", playlist_videos[idx].video_id,
                                         idx, NoPath))
    /\ outcome' = "Error"
    /\ fs' = f
    /\ idx' = idx + 1
    /\ pc' = "check"

\* variant of JobFailed: the exception escapes the loop to the outer handler
JobFailedAbortsBatch(f) ==
    /\ playlist_videos' = SetStatus(playlist_videos, idx, "error")
    /\ signals' = Append(signals, Signal("error", "", 0, NoPath))
    /\ outcome' = "Error"
    /\ fs' = f
    /\ idx' = idx
    /\ pc' = "finished"

\* _download_single_video, "except Exception": status error; run: video_error
\* is emitted and the loop continues
JobFailed(f) ==
    /\ playlist_videos' = SetStatus(playlist_videos, idx, "error")
    /\ signals' = Append(signals, Signal("video_error", playlist_videos[idx].video_id,
                                         idx, NoPath))
    /\ outcome' = "Error"
    /\ fs' = f
    /\ idx' = idx + 1
    /\ pc' = "check"

\* variant of JobCompleted: run returns after the job instead of going on
JobCompletedReturns(f) ==
    /\ playlist_videos' = [playlist_videos EXCEPT ![idx].status = "completed",
                                                  ![idx].file_path = OutputPath(idx)]
    /\ signals' = Append(signals, Signal("video_completed", playlist_videos[idx].video_id,
                                         idx, OutputPath(idx)))
    /\ outcome' = "Completed"
    /\ fs' = f
    /\ idx' = idx + 1
    /\ pc' = "finished"

\* _download_single_video, "if os.path.exists(output_path)": completed
JobCompleted(f) ==
    /\ playlist_videos' = [playlist_videos EXCEPT ![idx].status = "completed",
                                                  ![idx].file_path = OutputPath(idx)]
    /\ signals' = Append(signals, Signal("video_completed", playlist_videos[idx].video_id,
                                         idx, OutputPath(idx)))
    /\ outcome' = "Completed"
    /\ fs' = f
    /\ idx' = idx + 1
    /\ pc' = "check"

\* _download_single_video after the download calls returned: the check of the
\* output file decides between completed and error
Finalize(f) ==
    IF Exists(f, OutputPath(idx)) THEN JobCompleted(f) ELSE JobFailed(f)

\* variant of ToSimple: a failed video download is followed by the audio
\* download
ToSimpleAfterAudio(fault) ==
    /\ faults' = faults \cup fault
    /\ IF fault = {"VideoDownload"}
       THEN phases' = Append(phases, "AudioDownload") /\ pc' = "audio"
       ELSE phases' = Append(phases, "FallbackSingleDownload") /\ pc' = "simple"
    /\ UNCHANGED <<idx, playlist_videos, signals, fs, outcome>>

\* _enhanced_download returned False: _simple_download is called
ToSimple(fault) ==
    /\ faults' = faults \cup fault
    /\ phases' = Append(phases, "FallbackSingleDownload")
    /\ pc' = "simple"
    /\ UNCHANGED <<idx, playlist_videos, signals, fs, outcome>>

\* variant of InfoFailed: the missing info is not checked
InfoFailedGoesOn ==
    /\ faults' = faults \cup {"Info"}
    /\ phases' = Append(phases, "VideoDownload")
    /\ pc' = "video"
    /\ UNCHANGED <<idx, playlist_videos, signals, fs, outcome, info, pick, merge_rc>>

\* _enhanced_download: "if not info: return False"
InfoFailed ==
    /\ ToSimple({"Info"})
    /\ UNCHANGED <<info, pick, merge_rc>>

\* _enhanced_download: _get_video_info returned; the formats are selected, and
\* an exception of _find_best_formats is caught like any other (return False)
Info ==
    /\ variant = "playlist" /\ pc = "info"
    /\ \/ InfoFailed
       \/ \E c \in source :
          LET p == FindBestFormats(variant, c) IN
          /\ info' = c
          /\ pick' = p
          /\ faults' = IF p = RaisedPick THEN faults \cup {"Select"} ELSE faults
          /\ merge_rc' = merge_rc
          /\ IF p = RaisedPick \/ SelectionEmpty(p)
             THEN /\ phases' = phases \o <<"Select", "FallbackSingleDownload">>
                  /\ pc' = "simple"
             ELSE /\ phases' = phases \o <<"Select", "VideoDownload">>
                  /\ pc' = "video"
          /\ UNCHANGED <<idx, playlist_videos, signals, fs, outcome>>
    /\ UNCHANGED <<variant, windowvars, clipvars, source, entries, sanitizer, tracked, should_stop, ui, ui_videos, handled, job, stop_started>>
    /\ NoProgress
    /\ EnterTransfer
    /\ TempStep

\* _enhanced_download: _download_stream(video) returned or raised
Video ==
    /\ variant = "playlist" /\ pc = "video"
    /\ \/ /\ ToSimple({"VideoDownload"})
          /\ TransferRaised
       \/ /\ phases' = Append(phases, "AudioDownload")
          /\ pc' = "audio"
          /\ TransferReturned
          /\ UNCHANGED <<idx, playlist_videos, signals, fs, faults, outcome>>
    /\ UNCHANGED <<variant, windowvars, clipvars, source, entries, sanitizer, tracked, should_stop, ui, ui_videos, handled, info, pick, merge_rc,
                   job, stop_started>>
    /\ EnterTransfer
    /\ TempStep

\* _enhanced_download: _download_stream(audio) returned or raised
Audio ==
    /\ variant = "playlist" /\ pc = "audio"
    /\ \/ /\ ToSimple({"AudioDownload"})
          /\ TransferRaised
       \/ /\ phases' = Append(phases, "Merge")
          /\ pc' = "merge"
          /\ TransferReturned
          /\ UNCHANGED <<idx, playlist_videos, signals, fs, faults, outcome>>
    /\ UNCHANGED <<variant, windowvars, clipvars, source, entries, sanitizer, tracked, should_stop, ui, ui_videos, handled, info, pick, merge_rc,
                   job, stop_started>>
    /\ EnterTransfer
    /\ TempStep

\* _merge_streams returned: False without ffmpeg or on an exception (rc -1),
\* False on a non-zero exit code, True on exit code 0
Merge ==
    /\ variant = "playlist" /\ pc = "merge"
    /\ \/ \* ffmpeg -version failed, or Popen raised
          /\ ToSimple({"Merge"})
          /\ UNCHANGED merge_rc
       \/ \E st \in AfterEncoder(fs, OutputPath(idx)) :
          \/ /\ merge_rc' = 1
             /\ faults' = faults \cup {"Merge"}
             /\ phases' = Append(phases, "FallbackSingleDownload")
             /\ pc' = "simple"
             /\ fs' = [fs EXCEPT ![OutputPath(idx)] = st]
             /\ UNCHANGED <<idx, playlist_videos, signals, outcome>>
          \/ /\ merge_rc' = 0
             /\ faults' = faults
             /\ phases' = Append(phases, "Finalize")
             /\ Finalize([fs EXCEPT ![OutputPath(idx)] = st])
    /\ UNCHANGED <<variant, windowvars, clipvars, source, entries, sanitizer, tracked, should_stop, ui, ui_videos, handled, info, pick, job,
                   stop_started>>
    /\ MergeProgress(merge_rc')
    /\ EnterTransfer
    /\ TempStep

\* _simple_download returned or raised
Simple ==
    /\ variant = "playlist" /\ pc = "simple"
    /\ \/ \* ydl.download raised
          /\ faults' = faults \cup {"FallbackSingleDownload"}
          /\ phases' = phases
          /\ JobFailed(fs)
          /\ TransferRaised
       \/ \E st \in AfterTransfer(fs, OutputPath(idx)) :
          /\ TransferReturned
          /\ faults' = faults
          /\ phases' = Append(phases, "Finalize")
          /\ Finalize([fs EXCEPT ![OutputPath(idx)] = st])
    /\ UNCHANGED <<variant, windowvars, clipvars, source, entries, sanitizer, tracked, should_stop, ui, ui_videos, handled, info, pick, merge_rc,
                   job, stop_started>>
    /\ EnterTransfer
    /\ TempStep

(*************************** single-video workers **************************)
\* DownloadThread.run (main_app.py) and SingleVideoDownloadThread.run share
\* their control flow; they differ in _find_best_formats

Single == variant \in {"single", "main_app"}

\* variant of RunFailed: the handler starts the single-format download
RunFailedFallsBack(fault) ==
    /\ faults' = faults \cup fault
    /\ pc' = "s_fallback"
    /\ UNCHANGED <<signals, outcome>>

\* "except Exception as e: self.error.emit(...)"
RunFailed(fault) ==
    /\ faults' = faults \cup fault
    /\ signals' = Append(signals, Signal("error", "", 0, NoPath))
    /\ outcome' = "Error"
    /\ pc' = "finished"

\* variant of RunDone: the except clause runs after done was emitted
RunDoneThenError ==
    /\ signals' = signals \o <<Signal("done", "", 0, VideoName),
                                Signal("error", "", 0, NoPath)>>
    /\ outcome' = "Completed"
    /\ pc' = "finished"

\* self.done.emit(self.output_path)
RunDone ==
    /\ signals' = Append(signals, Signal("done", "", 0, VideoName))
    /\ outcome' = "Completed"
    /\ pc' = "finished"

\* run up to _get_video_info: an existing output file is removed, a failing
\* removal is ignored
SStart ==
    /\ Single /\ pc = "s_start"
    /\ \E st \in {"absent", fs[VideoName]} : fs' = [fs EXCEPT ![VideoName] = st]
    /\ phases' = <<"Info">>
    /\ outcome' = "running"
    /\ pc' = "s_info"
    /\ UNCHANGED <<variant, windowvars, clipvars, source, entries, sanitizer, tracked, idx, playlist_videos, should_stop, ui, ui_videos, signals,
                   handled, info, pick, faults, merge_rc, job, stop_started>>
    /\ progress' = NoValue
    /\ prog_phase' = ""
    /\ hook_d' = NoHook
    /\ hook_v' = NoValue
    /\ requests' = << >>
    /\ NewJobTemp

\* run: _get_video_info returned, formats are selected; an exception of
\* _find_best_formats ends run in its except clause
SInfo ==
    /\ Single /\ pc = "s_info"
    /\ \/ \* "Failed to get video information"
          /\ RunFailed({"Info"})
          /\ UNCHANGED <<info, pick, phases>>
       \/ \E c \in source :
          LET p == FindBestFormats(variant, c) IN
          /\ info' = c
          /\ pick' = p
          /\ IF p = RaisedPick
             THEN /\ phases' = Append(phases, "Select")
                  /\ RunFailed({"Select"})
             ELSE /\ IF SelectionEmpty(p)
                     THEN /\ phases' = phases \o <<"Select", "FallbackSingleDownload">>
                          /\ pc' = "s_fallback"
                     ELSE /\ phases' = phases \o <<"Select", "VideoDownload">>
                          /\ pc' = "s_video"
                  /\ UNCHANGED <<signals, faults, outcome>>
    /\ UNCHANGED <<variant, windowvars, clipvars, source, entries, sanitizer, tracked, idx, playlist_videos, should_stop, ui, ui_videos, handled,
                   fs, merge_rc, job, stop_started>>
    /\ NoProgress
    /\ EnterTransfer
    /\ TempStep

\* run: _download_stream(video) returned or raised
SVideo ==
    /\ Single /\ pc = "s_video"
    /\ \/ /\ RunFailed({"VideoDownload"})
          /\ TransferRaised
          /\ UNCHANGED phases
       \/ /\ phases' = Append(phases, "AudioDownload")
          /\ pc' = "s_audio"
          /\ TransferReturned
          /\ UNCHANGED <<signals, faults, outcome>>
    /\ UNCHANGED <<variant, windowvars, clipvars, source, entries, sanitizer, tracked, idx, playlist_videos, should_stop, ui, ui_videos, handled,
                   fs, info, pick, merge_rc, job, stop_started>>
    /\ EnterTransfer
    /\ TempStep

\* run: _download_stream(audio) returned or raised
SAudio ==
    /\ Single /\ pc = "s_audio"
    /\ \/ /\ RunFailed({"AudioDownload"})
          /\ TransferRaised
          /\ UNCHANGED phases
       \/ /\ phases' = Append(phases, "Merge")
          /\ pc' = "s_merge"
          /\ TransferReturned
          /\ UNCHANGED <<signals, faults, outcome>>
    /\ UNCHANGED <<variant, windowvars, clipvars, source, entries, sanitizer, tracked, idx, playlist_videos, should_stop, ui, ui_videos, handled,
                   fs, info, pick, merge_rc, job, stop_started>>
    /\ EnterTransfer
    /\ TempStep

\* run: _merge_streams returned True (exit code 0) or raised (no ffmpeg, the
\* subprocess call failed, non-zero exit code)
SMerge ==
    /\ Single /\ pc = "s_merge"
    /\ \/ /\ RunFailed({"Merge"})
          /\ UNCHANGED <<phases, merge_rc, fs>>
       \/ \E st \in AfterEncoder(fs, VideoName) :
          /\ fs' = [fs EXCEPT ![VideoName] = st]
          /\ \/ /\ merge_rc' = 1
                /\ RunFailed({"Merge"})
                /\ UNCHANGED phases
             \/ /\ merge_rc' = 0
                /\ phases' = Append(phases, "Finalize")
                /\ RunDone
                /\ UNCHANGED faults
    /\ UNCHANGED <<variant, windowvars, clipvars, source, entries, sanitizer, tracked, idx, playlist_videos, should_stop, ui, ui_videos, handled,
                   info, pick, job, stop_started>>
    /\ MergeProgress(merge_rc')
    /\ EnterTransfer
    /\ TempStep

\* _download_single_format returned or raised
SFallback ==
    /\ Single /\ pc = "s_fallback"
    /\ \/ /\ RunFailed({"FallbackSingleDownload"})
          /\ TransferRaised
          /\ UNCHANGED <<phases, fs>>
       \/ \E st \in AfterTransfer(fs, VideoName) :
          /\ TransferReturned
          /\ fs' = [fs EXCEPT ![VideoName] = st]
          /\ phases' = Append(phases, "Finalize")
          /\ IF Exists(fs', VideoName)
             THEN RunDone /\ UNCHANGED faults
             ELSE RunFailed({"Finalize"})
    /\ UNCHANGED <<variant, windowvars, clipvars, source, entries, sanitizer, tracked, idx, playlist_videos, should_stop, ui, ui_videos, handled,
                   info, pick, merge_rc, job, stop_started>>
    /\ EnterTransfer
    /\ TempStep

(*************************** window thread (YouTubeClipper) ****************)
\* stop_download, playlist branch, first half: the flag is set
StopRequest ==
    /\ variant = "playlist" /\ ui = "idle" /\ Running /\ ~should_stop
    /\ should_stop' = TRUE
    /\ ui' = "stopping"
    /\ stop_started' = {i \in Jobs : playlist_videos[i].status # "pending"}
    /\ UNCHANGED <<variant, windowvars, clipvars, source, entries, sanitizer, tracked, pc, idx, playlist_videos, ui_videos, signals, handled, fs,
                   jobvars>>

\* stop_download, playlist branch, second half: terminate() and wait()
Terminate ==
    /\ variant = "playlist" /\ ui = "stopping"
    /\ pc' = IF Running THEN "terminated" ELSE pc
    /\ ui' = "idle"
    /\ UNCHANGED <<variant, windowvars, clipvars, source, entries, sanitizer, tracked, idx, playlist_videos, should_stop, ui_videos, signals,
                   handled, fs, jobvars, stop_started>>

\* stop_download, single-video branch: terminate() and wait()
TerminateSingle ==
    /\ variant = "single" /\ ui = "idle" /\ Running
    /\ pc' = "terminated"
    /\ UNCHANGED <<variant, windowvars, clipvars, source, entries, sanitizer, tracked, idx, playlist_videos, should_stop, ui, ui_videos, signals,
                   handled, fs, jobvars, stop_started>>

\* the next queued signal, delivered when the window thread is free
Pending(s) ==
    /\ ui = "idle"
    /\ handled < Len(signals)
    /\ signals[handled + 1].sig = s

\* the PlaylistInfo a video_id maps to after the loop of
\* on_playlist_info_received: the last entry with that id
LastWithId(videos, id) ==
    IF \E k \in DOMAIN videos : videos[k].video_id = id
    THEN CHOOSE k \in DOMAIN videos :
            /\ videos[k].video_id = id
            /\ \A j \in DOMAIN videos : videos[j].video_id = id => j <= k
    ELSE 0

OnPlaylistInfoReceived ==
    /\ Pending("playlist_info")
    /\ ui_videos' = [id \in Ids |-> LastWithId(playlist_videos, id)]
    /\ handled' = handled + 1
    /\ UNCHANGED <<variant, windowvars, clipvars, source, entries, sanitizer, tracked, pc, idx, playlist_videos, should_stop, ui, signals, fs,
                   jobvars, stop_started>>

OnVideoCompleted ==
    /\ Pending("video_completed")
    /\ LET e == signals[handled + 1]
           k == ui_videos[e.id]
       IN  playlist_videos' =
              IF k = 0 THEN playlist_videos
              ELSE [playlist_videos EXCEPT ![k].status = "completed",
                                           ![k].file_path = e.path]
    /\ handled' = handled + 1
    /\ UNCHANGED <<variant, windowvars, clipvars, source, entries, sanitizer, tracked, pc, idx, should_stop, ui, ui_videos, signals, fs, jobvars,
                   stop_started>>

OnVideoError ==
    /\ Pending("video_error")
    /\ LET e == signals[handled + 1]
           k == ui_videos[e.id]
       IN  playlist_videos' =
              IF k = 0 THEN playlist_videos ELSE SetStatus(playlist_videos, k, "error")
    /\ handled' = handled + 1
    /\ UNCHANGED <<variant, windowvars, clipvars, source, entries, sanitizer, tracked, pc, idx, should_stop, ui, ui_videos, signals, fs, jobvars,
                   stop_started>>

\* self.playlist_videos.values(): the records the window's dictionary holds
Values == {ui_videos[id] : id \in Ids} \ {0}

\* the three numbers on_playlist_completed puts into the status label
CompletedCount == Cardinality({k \in Values : playlist_videos[k].status = "completed"})
ErrorCount == Cardinality({k \in Values : playlist_videos[k].status = "error"})
TotalCount == Cardinality(Values)

\* on_playlist_completed, handle_download_error, on_single_video_downloaded /
\* load_video: buttons and labels only
OnPlaylistCompleted ==
    /\ Pending("playlist_completed")
    /\ handled' = handled + 1
    /\ UNCHANGED <<variant, windowvars, clipvars, source, entries, sanitizer, tracked, pc, idx, playlist_videos, should_stop, ui, ui_videos,
                   signals, fs, jobvars, stop_started>>

HandleDownloadError ==
    /\ Pending("error")
    /\ handled' = handled + 1
    /\ UNCHANGED <<variant, windowvars, clipvars, source, entries, sanitizer, tracked, pc, idx, playlist_videos, should_stop, ui, ui_videos,
                   signals, fs, jobvars, stop_started>>

OnDone ==
    /\ Pending("done")
    /\ handled' = handled + 1
    /\ UNCHANGED <<variant, windowvars, clipvars, source, entries, sanitizer, tracked, pc, idx, playlist_videos, should_stop, ui, ui_videos,
                   signals, fs, jobvars, stop_started>>

(*************************** progress reports ******************************)
\* yt-dlp calls the hook with the 'downloading' status while the worker sits
\* in ydl.download. Within one transfer downloaded_bytes does not go down and
\* a known total_bytes stays what it is and is not exceeded; the estimate
\* yt-dlp gives without a known total may change and may be exceeded.
ProgressHook ==
    /\ pc \in TransferPcs
    /\ \E d \in HookInputs :
          /\ d.downloaded_bytes >= hook_d.downloaded_bytes
          /\ d.total_bytes # 0 => d.downloaded_bytes <= d.total_bytes
          /\ hook_d.total_bytes # 0 => d.total_bytes = hook_d.total_bytes
          /\ HookCall(d)
          /\ hook_d' = d
          /\ hook_v' = ProgressHookOf(variant, d, CurrentPhase(pc))
    /\ UNCHANGED <<variant, windowvars, clipvars, source, entries, sanitizer, tracked, pc, idx, playlist_videos, should_stop, ui, ui_videos,
                   signals, handled, fs, info, pick, phases, faults, merge_rc, outcome,
                   job, stop_started, requests, tempvars>>

(*************************** specification *********************************)
Next ==
    \/ Extract \/ Check \/ Info \/ Video \/ Audio \/ Merge \/ Simple
    \/ SStart \/ SInfo \/ SVideo \/ SAudio \/ SMerge \/ SFallback
    \/ StopRequest \/ Terminate \/ TerminateSingle
    \/ OnPlaylistInfoReceived \/ OnVideoCompleted \/ OnVideoError
    \/ OnPlaylistCompleted \/ HandleDownloadError \/ OnDone

Spec == Init /\ [][Next]_vars

\* A batch that is never cancelled: every call the playlist worker blocks in
\* returns or raises, so the worker always takes its next step, and the event
\* loop of the window thread delivers every queued signal.
InitLive == Init /\ variant = "playlist"

WorkerStep == Extract \/ Check \/ Info \/ Video \/ Audio \/ Merge \/ Simple

WindowStep ==
    \/ OnPlaylistInfoReceived \/ OnVideoCompleted \/ OnVideoError
    \/ OnPlaylistCompleted \/ HandleDownloadError

NextLive == WorkerStep \/ WindowStep

SpecLive == InitLive /\ [][NextLive]_vars /\ WF_vars(WorkerStep) /\ WF_vars(WindowStep)

\* One job, seen from its worker: a playlist of one entry whose extraction
\* has returned, or a single-video download; no output file exists yet and
\* the window thread is left out.
InitJob ==
    /\ NoWindow /\ NoClips
    /\ variant \in {"playlist", "single", "main_app"}
    /\ pc = IF variant = "playlist" THEN "check" ELSE "s_start"
    /\ idx = IF variant = "playlist" THEN 1 ELSE 0
    /\ playlist_videos = IF variant = "playlist" THEN <<PlaylistInfo(E1)>> ELSE << >>
    /\ signals = IF variant = "playlist"
                 THEN <<Signal("playlist_info", "", 0, NoPath)>> ELSE << >>
    /\ should_stop = FALSE
    /\ ui = "idle"
    /\ ui_videos = [id \in Ids |-> 0]
    /\ handled = 0
    /\ fs = [n \in Names |-> "absent"]
    /\ info = << >>
    /\ pick = NoPick
    /\ phases = << >>
    /\ faults = {}
    /\ merge_rc = -1
    /\ outcome = "none"
    /\ job = 0
    /\ stop_started = {}
    /\ progress = NoValue
    /\ prog_phase = ""
    /\ hook_d = NoHook
    /\ hook_v = NoValue
    /\ requests = << >>
    /\ entries = IF variant = "playlist" THEN <<E1>> ELSE << >>
    /\ NoTemp

\* the job with the progress reports of its transfers
InitHook == InitJob /\ source = Catalogs /\ NoTitle /\ tracked = FALSE /\ temp_files = {}

NextHook ==
    \/ Check \/ Info \/ Video \/ Audio \/ Merge \/ Simple
    \/ SStart \/ SInfo \/ SVideo \/ SAudio \/ SMerge \/ SFallback
    \/ ProgressHook

SpecHook == InitHook /\ [][NextHook]_vars

\* the job on every catalog of the pool: the source answers with one of them
InitSelect ==
    /\ InitJob /\ source \in {{c} : c \in AllCatalogs}
    /\ NoTitle /\ tracked = FALSE /\ temp_files = {}

NextSelect ==
    \/ Check \/ Info \/ Video \/ Audio \/ Merge \/ Simple
    \/ SStart \/ SInfo \/ SVideo \/ SAudio \/ SMerge \/ SFallback

SpecSelect == InitSelect /\ [][NextSelect]_vars

(*************************** temporary files of one job ********************)
\* files earlier jobs and runs can have left in the folder under the names
\* the job looks for: streams of either container whose merge failed or never
\* started, and the output of a job whose title begins with this job's
\* temporary name
StaleFiles(base) ==
    { base \o <<"_temp_video", "mp4">>, base \o <<"_temp_video", "webm">>,
      base \o <<"_temp_audio", "m4a">>, base \o <<"_temp_video", "_y", "mp4">> }

\* the job in a folder with any of these files
InitTemp ==
    /\ InitJob /\ source = Catalogs /\ NoTitle
    /\ tracked = TRUE
    /\ temp_files \in SUBSET StaleFiles(IF variant = "playlist" THEN SafeTitle(E1.title, TitleCap)
                                        ELSE VideoName)

SpecTemp == InitTemp /\ [][NextSelect]_vars

(*************************** direct-download worker ************************)
\* DownloadThread of main.py and main_ffmpeg.py hands the whole download to
\* one ydl.download call. yt-dlp calls the hook with 'downloading' while a
\* file is transferred and with 'finished' once for every file it has
\* transferred: one file for a format with both tracks, two (video, then
\* audio) for a format of the form video+audio, which it merges afterwards.

\* files one ydl.download transfers at most ('...+bestaudio...')
MaxStreams == 2

\* d['filename'] of a stream that is merged afterwards
StreamName == <<"v", ".f">>

\* the variables the direct-download worker leaves alone
directrest == <<variant, windowvars, clipvars, source, entries, sanitizer, tracked, idx, playlist_videos,
                should_stop, ui, ui_videos, handled, stop_started, info, pick, faults,
                merge_rc, job, requests, tempvars>>

\* how many files the download has finished
StreamsFinished == Cardinality({k \in DOMAIN phases : phases[k] = "StreamFinished"})

\* hook, 'downloading': percent = downloaded / total * 100, emitted as it is
ProgressHookDirect(d) ==
    IF TotalOf(d) # 0 THEN (Pct(100) * d.downloaded_bytes) \div TotalOf(d) ELSE NoValue

\* run up to ydl.download: an existing output file is removed, a failing
\* removal is ignored
DStart ==
    /\ variant = "direct" /\ pc = "d_start"
    /\ \E st \in {"absent", fs[VideoName]} : fs' = [fs EXCEPT ![VideoName] = st]
    /\ phases' = <<"Download">>
    /\ outcome' = "running"
    /\ pc' = "d_download"
    /\ UNCHANGED <<signals, progress, prog_phase, hook_d, hook_v, directrest>>

\* hook called with the 'downloading' status
DHook ==
    /\ variant = "direct" /\ pc = "d_download"
    /\ StreamsFinished < MaxStreams
    /\ \E d \in HookInputs :
          /\ d.downloaded_bytes >= hook_d.downloaded_bytes
          /\ d.total_bytes # 0 => d.downloaded_bytes <= d.total_bytes
          /\ hook_d.total_bytes # 0 => d.total_bytes = hook_d.total_bytes
          /\ hook_d' = d
          /\ hook_v' = ProgressHookDirect(d)
          /\ IF hook_v' = NoValue THEN NoProgress ELSE Emit(hook_v', "Download")
    /\ UNCHANGED <<pc, signals, phases, fs, outcome, directrest>>

\* hook called with the 'finished' status for one file: progress.emit(100),
\* then done.emit(d['filename']) if that file exists, error.emit otherwise
DStreamFinished ==
    /\ variant = "direct" /\ pc = "d_download"
    /\ StreamsFinished < MaxStreams
    /\ Emit(Pct(100), "Download")
    /\ \/ \E name \in {VideoName, StreamName} :
             signals' = Append(signals, Signal("done", "", 0, name))
       \/ signals' = Append(signals, Signal("error", "", 0, NoPath))
    /\ phases' = Append(phases, "StreamFinished")
    /\ hook_d' = NoHook
    /\ hook_v' = Pct(100)
    /\ UNCHANGED <<pc, fs, outcome, directrest>>

\* ydl.download raised or returned an error code ("Download failed"), or it
\* returned 0 and the output file is checked: run is over
DReturn ==
    /\ variant = "direct" /\ pc = "d_download"
    /\ \/ /\ signals' = Append(signals, Signal("error", "", 0, NoPath))
          /\ outcome' = "Error"
          /\ UNCHANGED fs
       \/ \E st \in AfterTransfer(fs, VideoName) :
          /\ fs' = [fs EXCEPT ![VideoName] = st]
          /\ IF Exists(fs', VideoName)
             THEN /\ UNCHANGED signals
                  /\ outcome' = "Completed"
             ELSE /\ signals' = Append(signals, Signal("error", "", 0, NoPath))
                  /\ outcome' = "Error"
    /\ pc' = "finished"
    /\ phases' = Append(phases, "Return")
    /\ UNCHANGED <<progress, prog_phase, hook_d, hook_v, directrest>>

InitDirect ==
    /\ NoWindow /\ NoClips
    /\ variant = "direct" /\ pc = "d_start"
    /\ idx = 0 /\ playlist_videos = << >> /\ signals = << >> /\ entries = << >>
    /\ should_stop = FALSE /\ ui = "idle" /\ ui_videos = [id \in Ids |-> 0]
    /\ handled = 0 /\ stop_started = {}
    /\ fs \in [Names -> {"absent", "full"}]
    /\ \A n \in Names : n # VideoName => fs[n] = "absent"
    /\ info = << >> /\ pick = NoPick /\ phases = << >> /\ faults = {}
    /\ merge_rc = -1 /\ outcome = "none" /\ job = 0
    /\ progress = NoValue /\ prog_phase = "" /\ hook_d = NoHook /\ hook_v = NoValue
    /\ requests = << >> /\ source = Catalogs
    /\ NoTemp /\ NoTitle /\ tracked = FALSE /\ temp_files = {}

NextDirect == DStart \/ DHook \/ DStreamFinished \/ DReturn

SpecDirect == InitDirect /\ [][NextDirect]_vars

(*************************** window: starting and stopping workers *********)
\* The window of main_app_playlistSupport.py (variant "playlist") starts a
\* SingleVideoDownloadThread or a PlaylistDownloadThread from its download
\* button and stops them from its stop button; the window of main_app.py
\* (variant "main_app") starts a DownloadThread from its download button and
\* has no stop button. A worker is seen from the window only: it runs, and
\* when run returns it has queued one terminal signal (C31, C38). Qt delivers
\* the signals queued for the window before the next click.

\* workers one window starts in a behaviour of the model
MaxRuns == 3

\* every worker and every variable of a worker is at rest
NoWorker ==
    /\ pc = "finished" /\ idx = 0 /\ playlist_videos = << >> /\ entries = << >>
    /\ should_stop = FALSE /\ ui = "idle" /\ ui_videos = [id \in Ids |-> 0]
    /\ stop_started = {}
    /\ fs = [n \in Names |-> "absent"]
    /\ info = << >> /\ pick = NoPick /\ phases = << >> /\ faults = {}
    /\ merge_rc = -1 /\ outcome = "none" /\ job = 0
    /\ progress = NoValue /\ prog_phase = "" /\ hook_d = NoHook /\ hook_v = NoValue
    /\ requests = << >> /\ source = Catalogs
    /\ NoTemp /\ NoTitle /\ tracked = FALSE /\ temp_files = {}

\* the variables of the workers' own steps, which the window's handlers of
\* this section leave alone
workerrest == <<variant, clipvars, source, entries, sanitizer, tracked, pc, idx,
                playlist_videos, should_stop, ui, ui_videos, fs, jobvars, stop_started>>

\* url_input.text().strip()
Urls == {"", "u"}

\* QThread.isRunning()
IsRunning(w) == w # 0 /\ threads[w].state = "running"

RunningWorkers == {w \in DOMAIN threads : threads[w].state = "running"}

\* no queued signal waits for the window
Delivered == handled = Len(signals)

\* a new worker object is created and started
StartThread(kind) == threads' = Append(threads, [kind |-> kind, state |-> "running"])

\* download_content, with download_single_video or download_playlist; the
\* click reaches the handler only while the button is enabled
DownloadContent ==
    /\ variant = "playlist" /\ download_btn /\ Delivered
    /\ Len(threads) < MaxRuns
    /\ \E url \in Urls, is_playlist \in BOOLEAN :
          IF url = ""
          THEN UNCHANGED windowvars
          ELSE /\ download_btn' = FALSE
               /\ stop_btn' = TRUE
               /\ IF is_playlist
                  THEN /\ StartThread("playlist")
                       /\ current_playlist_thread' = Len(threads) + 1
                       /\ UNCHANGED download_thread
                  ELSE /\ StartThread("single")
                       /\ download_thread' = Len(threads) + 1
                       /\ UNCHANGED current_playlist_thread
    /\ UNCHANGED <<signals, handled, workerrest>>

\* download_video (main_app.py): the button is never disabled
DownloadVideo ==
    /\ variant = "main_app" /\ Delivered
    /\ Len(threads) < MaxRuns
    /\ \E url \in Urls :
          IF url = ""
          THEN UNCHANGED windowvars
          ELSE /\ StartThread("main_app")
               /\ download_thread' = Len(threads) + 1
               /\ UNCHANGED <<download_btn, stop_btn, current_playlist_thread>>
    /\ UNCHANGED <<signals, handled, workerrest>>

\* stop_download: terminate() and wait() for the two workers the window
\* still refers to, if they run; then the buttons
StopDownload ==
    /\ variant = "playlist" /\ stop_btn /\ Delivered
    /\ threads' = [w \in DOMAIN threads |->
                     IF w \in {download_thread, current_playlist_thread} /\ IsRunning(w)
                     THEN [threads[w] EXCEPT !.state = "terminated"]
                     ELSE threads[w]]
    /\ download_btn' = TRUE
    /\ stop_btn' = FALSE
    /\ UNCHANGED <<download_thread, current_playlist_thread, signals, handled, workerrest>>

\* the terminal signal a worker of this kind emits
TerminalSignals(kind) ==
    IF kind = "playlist" THEN {"playlist_completed", "error"} ELSE {"done", "error"}

\* run of a worker returns after its terminal signal
WorkerReturns ==
    /\ \E w \in RunningWorkers : \E sig \in TerminalSignals(threads[w].kind) :
          /\ threads' = [threads EXCEPT ![w].state = "finished"]
          /\ signals' = Append(signals, Signal(sig, "", w, NoPath))
    /\ UNCHANGED <<download_btn, stop_btn, download_thread, current_playlist_thread,
                   handled, workerrest>>

\* on_playlist_completed, handle_download_error, on_single_video_downloaded
\* enable the download button; load_video and handle_download_error of
\* main_app.py touch no button
HandleTerminal ==
    /\ handled < Len(signals)
    /\ handled' = handled + 1
    /\ IF variant = "playlist"
       THEN download_btn' = TRUE /\ stop_btn' = FALSE
       ELSE UNCHANGED <<download_btn, stop_btn>>
    /\ UNCHANGED <<threads, download_thread, current_playlist_thread, signals, workerrest>>

InitWindow ==
    /\ variant \in {"playlist", "main_app"}
    /\ NoWorker /\ NoWindow /\ NoClips
    /\ signals = << >> /\ handled = 0

NextWindow ==
    \/ DownloadContent \/ DownloadVideo \/ StopDownload
    \/ WorkerReturns \/ HandleTerminal

SpecWindow == InitWindow /\ [][NextWindow]_vars

(*************************** window: the clip list *************************)
\* Times are seconds. A time typed into a field is the list of the pieces
\* between its colons; a piece is a number, "nan" (which float() accepts) or
\* something float() rejects.

\* clips in the list, pieces in a typed time
MaxClips == 2
MaxParts == 2

\* float('nan'), and a piece float() raises ValueError for
NaN == -2
Bad == -3

\* comparisons of floats: every comparison with nan is False
FGt(a, b) == a # NaN /\ b # NaN /\ a > b
FLe(a, b) == a # NaN /\ b # NaN /\ a <= b

PartValues == {0, 1, -5, NaN, Bad}

\* what a time field can hold; << >> is the empty field
Texts == SeqsUpTo(PartValues, MaxParts)

\* hours * 3600 + minutes * 60 + seconds over the pieces, last piece seconds
RECURSIVE TotalSeconds(_)
TotalSeconds(parts) ==
    IF parts = << >> THEN 0
    ELSE TotalSeconds(SubSeq(parts, 1, Len(parts) - 1)) * 60 + parts[Len(parts)]

\* parse_timestamp: None (NoStart) after any exception, nan when a piece is
\* nan (nan < 0 is False), the total otherwise
ParseTimestamp(parts) ==
    IF Len(parts) \notin 1..3 \/ \E k \in DOMAIN parts : parts[k] = Bad THEN NoStart
    ELSE IF \E k \in DOMAIN parts : parts[k] = NaN THEN NaN
    ELSE IF TotalSeconds(parts) < 0 THEN NoStart
    ELSE TotalSeconds(parts)

Durations == {1, 61}

\* media_player.position() / 1000
Positions == {t \in {0, 1, 60, 61} : t <= duration}

Paths == {"a.mp4", "b.mp4"}

\* humanfriendly.format_timespan is not part of the program: for nan it
\* returns or raises
FormatRaises(t) == IF t = NaN THEN BOOLEAN ELSE {FALSE}

\* the variables the handlers of the clip list leave alone
cliprest == <<variant, windowvars, source, entries, sanitizer, tracked, pc, idx,
              playlist_videos, should_stop, ui, ui_videos, signals, handled, fs,
              jobvars, stop_started>>

\* the time a handler works with: the typed one, or the position of the
\* player when the field is empty (main_app.py has no fields); NoStart when
\* the handler returns early
TimeOf(text, pos) ==
    IF variant = "main_app" \/ text = << >> THEN pos
    ELSE IF ParseTimestamp(text) = NoStart THEN NoStart
    ELSE IF FGt(ParseTimestamp(text), duration) THEN NoStart
    ELSE ParseTimestamp(text)

\* set_start_time
SetStartTime ==
    /\ \E text \in Texts, pos \in Positions :
          current_start' = IF TimeOf(text, pos) = NoStart THEN current_start
                           ELSE TimeOf(text, pos)
    /\ UNCHANGED <<timestamps, duration, video_path, cliprest>>

\* set_end_time: the clip is appended before its list entry is formatted, and
\* current_start is cleared after that
SetEndTime ==
    /\ \E text \in Texts, pos \in Positions :
          LET end_pos == TimeOf(text, pos)
          IN  IF current_start = NoStart \/ end_pos = NoStart \/ FLe(end_pos, current_start)
              THEN UNCHANGED <<timestamps, current_start>>
              ELSE /\ Len(timestamps) < MaxClips
                   /\ timestamps' = Append(timestamps, <<current_start, end_pos>>)
                   /\ \E raises \in FormatRaises(current_start) \cup FormatRaises(end_pos) :
                         current_start' = IF raises THEN current_start ELSE NoStart
    /\ UNCHANGED <<duration, video_path, cliprest>>

\* the list without its element at position row (from 0): list.pop(row)
Pop(list, row) == SubSeq(list, 1, row) \o SubSeq(list, row + 2, Len(list))

\* delete_selected_clip
DeleteSelectedClip ==
    /\ \E current_row \in -1..(Len(timestamps) - 1), yes \in BOOLEAN :
          timestamps' = IF current_row = -1 \/ ~yes THEN timestamps
                        ELSE Pop(timestamps, current_row)
    /\ UNCHANGED <<current_start, duration, video_path, cliprest>>

\* load_video
LoadVideo ==
    /\ \E path \in Paths, exists \in BOOLEAN, d \in Durations :
          IF ~exists
          THEN UNCHANGED clipvars
          ELSE /\ timestamps' = << >>
               /\ current_start' = NoStart
               /\ video_path' = path
               /\ duration' = d
    /\ UNCHANGED cliprest

InitClips ==
    /\ variant \in {"playlist", "main_app"}
    /\ NoWorker /\ NoWindow /\ NoClips
    /\ signals = << >> /\ handled = 0

NextClips == SetStartTime \/ SetEndTime \/ DeleteSelectedClip \/ LoadVideo

SpecClips == InitClips /\ [][NextClips]_vars

(*************************** filename sanitizer alone **********************)
\* _download_single_video: safe_title of the job's title, cut to 50
SanitizeJobTitle ==
    /\ safe_title' = SafeTitle(title, TitleCap)
    /\ UNCHANGED <<variant, windowvars, clipvars, source, entries, tracked, title, rename_title, pc, idx, playlist_videos,
                   should_stop, ui, ui_videos, signals, handled, fs, jobvars, stop_started>>

\* on_single_video_downloaded: safe_title of the video's title, cut to 100
SanitizeRenameTitle ==
    /\ rename_title' = SafeTitle(title, RenameCap)
    /\ UNCHANGED <<variant, windowvars, clipvars, source, entries, tracked, title, safe_title, pc, idx, playlist_videos,
                   should_stop, ui, ui_videos, signals, handled, fs, jobvars, stop_started>>

\* the sanitizer on every title of the pool
InitSanitize ==
    /\ InitJob /\ variant = "playlist" /\ source = Catalogs
    /\ title \in Titles
    /\ safe_title = NoPath /\ rename_title = NoPath
    /\ tracked = FALSE /\ temp_files = {}

NextSanitize == SanitizeJobTitle \/ SanitizeRenameTitle

SpecSanitize == InitSanitize /\ [][NextSanitize]_vars

TypeOK ==
    /\ variant \in {"playlist", "single", "main_app", "direct"}
    /\ idx \in 0..(MaxJobs + 1)
    /\ should_stop \in BOOLEAN
    /\ ui \in {"idle", "stopping"}
    /\ handled \in 0..Len(signals)
    /\ fs \in [Names -> FileStates]
    /\ merge_rc \in {-1, 0, 1}
    /\ outcome \in {"none", "running", "Completed", "Error"}
    /\ job \in 0..MaxJobs
    /\ progress \in Int
    /\ prog_phase \in {"", "VideoDownload", "AudioDownload", "Merge",
                       "FallbackSingleDownload", "Download"}
    /\ hook_d \in HookInputs \cup {NoHook}
    /\ hook_v \in Int
    /\ \A k \in DOMAIN requests : requests[k] \in STRING
    /\ tracked \in BOOLEAN
    /\ written \subseteq temp_files \cup {video_file, audio_file}
    /\ cleanup \in {"none", "done", "failed"}
    /\ download_btn \in BOOLEAN /\ stop_btn \in BOOLEAN
    /\ threads \in Seq([kind : {"single", "playlist", "main_app"},
                        state : {"running", "finished", "terminated"}])
    /\ download_thread \in 0..Len(threads)
    /\ current_playlist_thread \in 0..Len(threads)
    /\ Len(timestamps) <= MaxClips
    /\ \A k \in DOMAIN timestamps : timestamps[k] \in (Nat \cup {NaN}) \X (Nat \cup {NaN})
    /\ current_start \in Nat \cup {NaN, NoStart}
    /\ duration \in Durations \cup {0}
    /\ video_path \in Paths \cup {""}
    /\ \A i \in Jobs : playlist_videos[i].status
                         \in {"pending", "downloading", "completed", "error"}

(*************************** properties ************************************)
Status(i) == playlist_videos[i].status
Terminal == {"completed", "error"}
InPhases(p) == \E k \in DOMAIN phases : phases[k] = p
IsPrefix(a, b) == Len(a) <= Len(b) /\ a = SubSeq(b, 1, Len(a))
\* output file of the job the job variables describe
JobPath == IF variant = "playlist" /\ job \in Jobs THEN OutputPath(job) ELSE VideoName
Downloading == {i \in Jobs : Status(i) = "downloading"}

\* ---- C1 ----
AtMostOneDownloading == Cardinality(Downloading) <= 1

StartsInOrder ==
    \A j \in DOMAIN playlist_videos' :
        (/\ playlist_videos'[j].status = "downloading"
         /\ j \in DOMAIN playlist_videos
         /\ Status(j) # "downloading")
        => \A i \in 1..(j - 1) : Status(i) \in Terminal

\* C1: in a playlist batch at most one job has status downloading, and a job
\* becomes downloading only when every job before it in the list is already
\* completed or error.
C1_Sequential == []AtMostOneDownloading /\ [][StartsInOrder]_vars

\* the second job of a batch is downloading after the first one ended
C1_Witness == N >= 2 /\ Status(1) \in Terminal /\ Status(2) = "downloading"

\* ---- C2 ----
\* C2: once the stop request has been carried out and the worker no longer
\* runs, every job that had been started before the request is completed or
\* error, and every other job is still pending.
C2_StopLeavesJobsTerminal ==
    (variant = "playlist" /\ should_stop /\ ui = "idle" /\ ~Running)
    => \A i \in Jobs : IF i \in stop_started THEN Status(i) \in Terminal
                                            ELSE Status(i) = "pending"

\* ---- C3 ----
\* C3 as stated: a batch run that has returned has emitted playlist_completed
\* exactly once, whether the loop ran through all jobs or was stopped by the
\* flag, and never while a job was downloading.
C3_ExactlyOneCompletion ==
    /\ Count("playlist_completed") <= 1
    /\ Count("playlist_completed") = 1 => Downloading = {}
    /\ (variant = "playlist" /\ N > 0 /\ pc = "finished")
       => Count("playlist_completed") = 1

\* C3 amended: playlist_completed is emitted at most once; exactly once when
\* the loop has gone through all jobs, every job then being completed or
\* error; not at all when the run returns because it saw the stop flag.
C3_CompletionOnlyWhenExhausted ==
    /\ Count("playlist_completed") <= 1
    /\ Count("playlist_completed") = 1
       => /\ pc = "finished" /\ idx > N
          /\ \A i \in Jobs : Status(i) \in Terminal
    /\ (variant = "playlist" /\ N > 0 /\ pc = "finished" /\ idx > N)
       => Count("playlist_completed") = 1
    /\ (variant = "playlist" /\ N > 0 /\ pc = "finished" /\ idx <= N)
       => should_stop /\ Count("playlist_completed") = 0

\* a two-job batch that ran through and emitted its completion event
C3_Witness == N >= 2 /\ idx > N /\ Count("playlist_completed") = 1

\* ---- C4 ----
JobPcs == {"info", "video", "audio", "merge", "simple"}

\* the step in which the worker fails the job in progress
FailsJob == variant = "playlist" /\ pc \in JobPcs /\ outcome = "running" /\ outcome' = "Error"

JobErrorStep ==
    FailsJob => /\ playlist_videos'[idx].status = "error"
                /\ signals' = Append(signals,
                                     Signal("video_error", playlist_videos[idx].video_id,
                                            idx, NoPath))
                /\ idx' = idx + 1
                /\ pc' = "check"

LoopGoesOn ==
    (pc = "check" /\ pc' # "check" /\ idx <= N /\ ~should_stop)
    => (pc' = "info" /\ playlist_videos'[idx].status = "downloading")

NoBatchErrorForJob == (variant = "playlist" /\ Count("error") > 0) => N = 0

\* C4: when a playlist job fails, its status becomes error, video_error is
\* emitted for it and the loop moves to the next entry, which is started
\* unless the stop flag is set; the batch error signal is emitted only when
\* no job list was extracted.
C4_ErrorDoesNotAbort == []NoBatchErrorForJob /\ [][JobErrorStep /\ LoopGoesOn]_vars

\* the job after a failed one is downloading, nobody asked to stop
C4_Witness ==
    /\ N >= 2 /\ ~should_stop
    /\ Status(1) = "error" /\ Status(2) = "downloading"
    /\ \E k \in DOMAIN signals : signals[k].sig = "video_error" /\ signals[k].job = 1

\* ---- C5 ----
\* C5: in every engine variant, when the video or the audio download of the
\* separate-stream path has failed, the job has entered the fallback
\* download, and it is in Error only if that fallback failed too.
C5_DownloadFailureFallsBack ==
    (faults \cap {"VideoDownload", "AudioDownload"} # {})
    => /\ InPhases("FallbackSingleDownload")
       /\ outcome = "Error"
          => ("FallbackSingleDownload" \in faults \/ ~Exists(fs, JobPath))

C7_ExitOneNeverCompleted ==
    (merge_rc = 1 /\ fs[JobPath] = "empty") => outcome # "Completed"

\* ---- C8 ----
\* C8: a job is Completed only if its destination file exists with non-zero
\* size.
C8_CompletedHasNonEmptyFile == outcome = "Completed" => fs[JobPath] = "full"

FallbackSequence == <<"Info", "Select", "FallbackSingleDownload", "Finalize">>

\* C10: once selection has left the video or the audio pick empty, the phases
\* of the job are Info, Select, FallbackSingleDownload and then Finalize;
\* VideoDownload, AudioDownload and Merge are never entered, and a job that
\* completes has gone through all four.
C10_EmptySelectionFallsBack ==
    (InPhases("Select") /\ (pick.video = 0 \/ pick.audio = 0))
    => /\ Len(phases) >= 3
       /\ IsPrefix(phases, FallbackSequence)
       /\ pc \notin {"video", "audio", "merge", "s_video", "s_audio", "s_merge"}
       /\ outcome = "Completed" => phases = FallbackSequence

\* a job with a video pick but no audio pick was completed by the fallback
C10_Witness ==
    /\ InPhases("Select") /\ pick.video # 0 /\ pick.audio = 0
    /\ outcome = "Completed"

\* ---- C11 ----
Emitted == progress # NoValue

\* C11: within one job every emitted progress value lies in 0..100 and no
\* emitted value is below the one emitted before it, across the phases of the
\* job and across the switch from the separate streams to the fallback.
C11_ProgressMonotone ==
    /\ [](Emitted => progress >= 0 /\ progress <= Pct(100))
    /\ [][Emitted /\ progress' # NoValue => progress' >= progress]_vars

\* ---- C12 ----
\* the step ends phase p without a failure of p and goes on to the next phase
Completes(p) ==
    /\ phases # << >> /\ phases[Len(phases)] = p
    /\ Len(phases') = Len(phases) + 1
    /\ p \notin faults'

LastEmitted(v, p) == progress' = v /\ prog_phase' = p

\* C12: when a phase completes, the last progress value emitted during it is
\* the upper bound of the phase: 60 for the video download, 90 for the audio
\* download and for the single (fallback) download, 100 for the merge.
C12_PhaseEndsAtUpperBound ==
    [][/\ Completes("VideoDownload") => LastEmitted(Pct(60), "VideoDownload")
       /\ Completes("AudioDownload") => LastEmitted(Pct(90), "AudioDownload")
       /\ Completes("FallbackSingleDownload")
             => LastEmitted(Pct(90), "FallbackSingleDownload")
       /\ Completes("Merge") => LastEmitted(Pct(100), "Merge")]_vars

\* ---- C13 ----
\* C13: on the separate-stream path no value emitted during the video phase
\* exceeds 60 and every value emitted during the audio phase lies in [60, 90),
\* whatever byte counters the transfer reports.
C13_PhaseRanges ==
    /\ prog_phase = "VideoDownload" => progress <= Pct(60)
    /\ prog_phase = "AudioDownload" => progress >= Pct(60) /\ progress < Pct(90)

\* ---- C14 ----
\* the hook is called with the 'downloading' status and no total of any kind
HookWithoutTotal(d) == d.status = "downloading" /\ TotalOf(d) = 0

\* C14: a progress report without a total never emits a value above 90, and
\* of two such reports of one transfer the later one (which has at least as
\* many bytes) does not emit a lower value than the earlier one.
C14_EstimateWithoutTotal ==
    [][hook_d' # hook_d /\ HookWithoutTotal(hook_d') /\ hook_v' # NoValue
          => /\ hook_v' <= Pct(90)
             /\ HookWithoutTotal(hook_d) /\ hook_v # NoValue => hook_v' >= hook_v]_vars

\* SingleVideoDownloadThread has reported 4000 MiB of a video stream of
\* unknown size: the estimate is capped and shows 54 of the 60 percent
C14_Witness ==
    /\ variant = "single" /\ pc = "s_video"
    /\ HookWithoutTotal(hook_d) /\ hook_d.downloaded_bytes = HugeBytes
    /\ hook_v = Pct(54) /\ progress = Pct(54)

\* ---- C16 ----
\* the selection has been run for the job
SelectEntered == InPhases("Select")
\* the selector has returned its two picks
Selected == SelectEntered /\ "Select" \notin faults
HasVideo(f) == f.vcodec # "none"
HasAudio(f) == f.acodec # "none"
\* the formats of the catalog by kind, from the codec fields
VideoOnlyOf(formats) == {i \in DOMAIN formats : HasVideo(formats[i]) /\ ~HasAudio(formats[i])}
AudioOnlyOf(formats) == {i \in DOMAIN formats : HasAudio(formats[i]) /\ ~HasVideo(formats[i])}
CombinedOf(formats) == {i \in DOMAIN formats : HasVideo(formats[i]) /\ HasAudio(formats[i])}
\* the selector has returned a pick in both slots
PairPicked == pick.video > 0 /\ pick.audio > 0
\* the selector has put a combined format first (SingleVideoDownloadThread)
CombinedPreferred == variant = "single" /\ CombinedOf(info) # {}

\* i is a maximum of S under the key
IsMaxOf(i, S, key) == i \in S /\ \A j \in S : ~LexLess(key[i], key[j])

\* C16: wherever the selector ranks video-only formats, its video pick is the
\* reference choice: a maximum of the video-only formats of height >= 1080
\* under (height, tbr, filesize) if there is one, otherwise a maximum of all
\* video-only formats under (height, tbr).
C16_VideoRanking ==
    Selected /\ ~CombinedPreferred /\ VideoOnlyOf(info) # {} =>
        LET vf == VideoOnlyOf(info)
            hi == {i \in vf : info[i].height >= 1080}
            k3 == [i \in DOMAIN info |-> <<info[i].height, info[i].tbr, info[i].filesize>>]
            k2 == [i \in DOMAIN info |-> <<info[i].height, info[i].tbr>>]
        IN  IF hi # {} THEN IsMaxOf(pick.video, hi, k3) ELSE IsMaxOf(pick.video, vf, k2)

\* ---- C17 ----
\* C17: the audio pick is a maximum of the audio-only formats under
\* (abr, filesize): of the formats with the highest audio bitrate one with the
\* largest file size.
C17_AudioRanking ==
    Selected /\ ~CombinedPreferred /\ AudioOnlyOf(info) # {} =>
        LET ka == [i \in DOMAIN info |-> <<info[i].abr, info[i].filesize>>]
        IN  IsMaxOf(pick.audio, AudioOnlyOf(info), ka)

\* ---- C18 ----
\* C18: when no combined format is preferred, the selection of a job ends
\* with a pick in both slots exactly if the catalog has a video-only and an
\* audio-only format; the job then starts with the video stream, and in every
\* other case with the single-format fallback.
C18_SelectionPolicy ==
    SelectEntered /\ ~CombinedPreferred =>
        /\ PairPicked <=> (VideoOnlyOf(info) # {} /\ AudioOnlyOf(info) # {})
        /\ Len(phases) >= 3
        /\ phases[3] = IF PairPicked THEN "VideoDownload" ELSE "FallbackSingleDownload"

\* ---- C19 ----
NoSeparatePhases ==
    ~InPhases("VideoDownload") /\ ~InPhases("AudioDownload") /\ ~InPhases("Merge")

\* C19: when SingleVideoDownloadThread's selector returns a combined format,
\* the only transfer of the job asks for exactly that format, and the job
\* never enters the video download, the audio download or the merge.
C19_CombinedDownloaded ==
    Selected /\ CombinedPreferred =>
        /\ requests = <<FormatId(info, pick.video)>>
        /\ NoSeparatePhases

\* ---- C20 ----
\* C20: when the selector returns a pick in both slots, the video pick has a
\* video track and no audio track and the audio pick an audio track and no
\* video track; the three kinds of formats of a catalog are pairwise disjoint.
C20_ComplementaryKinds ==
    Selected =>
        /\ PairPicked =>
              /\ HasVideo(info[pick.video]) /\ ~HasAudio(info[pick.video])
              /\ HasAudio(info[pick.audio]) /\ ~HasVideo(info[pick.audio])
        /\ VideoOnlyOf(info) \cap AudioOnlyOf(info) = {}
        /\ VideoOnlyOf(info) \cap CombinedOf(info) = {}
        /\ AudioOnlyOf(info) \cap CombinedOf(info) = {}

\* SingleVideoDownloadThread has picked a pair from a catalog that holds an
\* m4a and a webm audio track
C20_Witness ==
    /\ variant = "single" /\ pc = "s_video" /\ PairPicked
    /\ \E i, j \in AudioOnlyOf(info) : info[i].ext # info[j].ext

\* ---- C21 ----
\* C21: once the cancellation flag is set while a playlist job is in its
\* video download, the step that ends this transfer starts no further phase of
\* the job and leaves the job with the status cancelled.
C21_CancelBetweenPhases ==
    [][should_stop /\ pc = "video" /\ pc' # "video"
          => /\ phases' = phases
             /\ playlist_videos'[job].status = "cancelled"]_vars

\* ---- C22 ----
\* jobs whose PlaylistInfo object a handler of the window thread has assigned
\* to: on_video_completed (status, file_path) and on_video_error (status) have
\* run for a signal whose video_id is a key of the window's dictionary
WindowWrites ==
    {k \in Jobs : \E h \in 1..handled :
        /\ signals[h].sig \in {"video_completed", "video_error"}
        /\ ui_videos[signals[h].id] = k}

\* C22: status, progress and file path of a job are written by the worker
\* thread only: the window thread has assigned to the fields of no job.
C22_WorkerOnlyWrites == WindowWrites = {}

\* ---- C23 ----
\* positions of the playlist_info events among the emitted signals
Published == {h \in DOMAIN signals : signals[h].sig = "playlist_info"}

\* C23: the job list is published at most once, and exactly once before the
\* first job starts: playlist_info is the first signal of the batch, so it
\* precedes every video_progress, video_completed and video_error; the list holds
\* one job per entry the extraction returned (entries that are None are
\* skipped), in the order of the entries; until the first job starts every job
\* is pending.
C23_JobListPublishedOnce ==
    /\ Cardinality(Published) <= 1
    /\ \A h \in DOMAIN signals :
          signals[h].sig \in {"video_progress", "video_completed", "video_error"}
          => \E g \in Published : g < h
    /\ job # 0 => Published = {1}
    /\ Published # {}
       => /\ N = Cardinality({k \in DOMAIN entries : entries[k] # NoneEntry})
          /\ \E pos \in [Jobs -> DOMAIN entries] :
                /\ \A i \in Jobs : /\ playlist_videos[i].title = entries[pos[i]].title
                                   /\ playlist_videos[i].video_id = entries[pos[i]].video_id
                /\ \A i, k \in Jobs : i < k => pos[i] < pos[k]
          /\ job = 0 => \A i \in Jobs : playlist_videos[i].status = "pending"

\* a list of two jobs built from two different entries is published and its
\* second job has reported its end
C23_Witness ==
    /\ Published = {1} /\ N = 2 /\ entries[1] # entries[2]
    /\ \E h \in DOMAIN signals :
          signals[h].sig \in {"video_completed", "video_error"} /\ signals[h].job = 2

\* ---- C24 ----
\* the job runs on the catalog of one 1080p video-only format (tbr 2000) and
\* one audio-only format (abr 128)
Scenario == info = <<V1080, A128>>

\* the job is over, none of its downloads failed, the encoder exited with 0 and
\* the destination is a non-empty file
ScenarioSucceeded ==
    /\ Scenario /\ outcome \in {"Completed", "Error"}
    /\ faults = {} /\ merge_rc = 0
    /\ fs[JobPath] = "full"

\* C24: in this scenario the job takes the separate-stream path (video, then
\* audio, then merge), each download ends with the upper bound of its phase
\* as the last progress value (60, then 90), and the job ends Completed with
\* its file path reported.
C24_EndToEnd ==
    /\ [](ScenarioSucceeded
            => /\ IsPrefix(<<"Info", "Select", "VideoDownload", "AudioDownload", "Merge">>,
                           phases)
               /\ ~InPhases("FallbackSingleDownload")
               /\ outcome = "Completed"
               /\ \E h \in DOMAIN signals :
                     /\ signals[h].sig \in {"video_completed", "done"}
                     /\ signals[h].path = JobPath)
    /\ [][Scenario
            => /\ Completes("VideoDownload") => LastEmitted(Pct(60), "VideoDownload")
               /\ Completes("AudioDownload") => LastEmitted(Pct(90), "AudioDownload")]_vars

\* ---- C27 ----
\* the phase the worker is in: the one it entered last
ActivePhase == IF phases = << >> THEN "" ELSE phases[Len(phases)]

\* C27: the audio download is entered only right after a video download that
\* did not fail, the merge only right after an audio download that followed
\* such a video download and did not fail either; the blocking call the worker
\* sits in belongs to the phase entered last, so no two of them are active.
C27_PhasesSequential ==
    /\ \A k \in DOMAIN phases :
          /\ phases[k] = "AudioDownload"
                => /\ k > 1 /\ phases[k - 1] = "VideoDownload"
                   /\ "VideoDownload" \notin faults
          /\ phases[k] = "Merge"
                => /\ k > 2 /\ phases[k - 1] = "AudioDownload"
                   /\ phases[k - 2] = "VideoDownload"
                   /\ faults \cap {"VideoDownload", "AudioDownload"} = {}
    /\ pc \in {"video", "s_video"} => ActivePhase = "VideoDownload"
    /\ pc \in {"audio", "s_audio"} => ActivePhase = "AudioDownload"
    /\ pc \in {"merge", "s_merge"} => ActivePhase = "Merge"

\* the job went through video download, audio download and merge and completed
C27_Witness == InPhases("Merge") /\ merge_rc = 0 /\ outcome = "Completed"

\* ---- C29 ----
\* C29: wherever the selector ranks the video-only formats of a catalog that
\* has some, its video pick is one of them and no video-only format of the
\* catalog is higher than the pick.
C29_PickIsHighest ==
    Selected /\ ~CombinedPreferred /\ VideoOnlyOf(info) # {} =>
        /\ pick.video \in VideoOnlyOf(info)
        /\ \A j \in VideoOnlyOf(info) : info[pick.video].height >= info[j].height

\* the pick was made among video-only formats of three different heights, two
\* of them in the high resolution bucket
C29_Witness ==
    /\ Selected /\ ~CombinedPreferred
    /\ {info[j].height : j \in VideoOnlyOf(info)} = {720, 1080, 1440}
    /\ info[pick.video].height = 1440

\* ---- C25 ----
\* the characters a sanitized name may hold: those for which isalnum() holds
\* and the four whitelisted ones
SafeChars == {"x", "y", "z", "1", " ", "-", "_", "."}

SafeName(name, cap) ==
    /\ \A k \in DOMAIN name : name[k] \in SafeChars
    /\ Len(name) <= cap

\* C25: for every title the sanitizer returns a name of whitelisted and
\* alphanumeric characters only, of at most 50 characters for a playlist job
\* and at most 100 for the rename of a single video, and sanitizing the same
\* title again gives the same name.
C25_SanitizerSafe ==
    /\ [](/\ safe_title # NoPath => SafeName(safe_title, 50)
          /\ rename_title # NoPath => SafeName(rename_title, 100))
    /\ [][/\ safe_title # NoPath => safe_title' = safe_title
          /\ rename_title # NoPath => rename_title' = rename_title]_vars

\* a title of more than 100 characters with characters that are dropped has
\* been sanitized for both uses, and both names were cut
C25_Witness ==
    /\ Len(title) > 100 /\ \E k \in DOMAIN title : title[k] \in {"?", "/"}
    /\ Len(safe_title) = 50 /\ Len(rename_title) = 100

\* ---- C26 ----
\* the encoder has exited with 0 for the job
MergeSucceeded == merge_rc = 0

\* C26: after a merge with exit code 0 the removal of the two files handed to
\* the merge has been tried, and unless a removal failed neither file is left;
\* however the removal went, the merge counts as successful (no merge failure
\* is recorded and no fallback download follows) and the job is completed as
\* soon as its output file exists.
C26_CleanupSwallowed ==
    MergeSucceeded =>
        /\ cleanup \in {"done", "failed"}
        /\ cleanup = "done" => video_file \notin temp_files /\ audio_file \notin temp_files
        /\ "Merge" \notin faults /\ ~InPhases("FallbackSingleDownload")
        /\ Exists(fs, JobPath) => outcome = "Completed"

\* a removal failed after a merge with exit code 0, a file handed to the merge
\* is still there, and the job is completed
C26_Witness ==
    /\ MergeSucceeded /\ cleanup = "failed"
    /\ audio_file \in temp_files
    /\ outcome = "Completed"

\* ---- C28 ----
\* C28: the file _download_stream returns is the file its transfer has
\* written: the one named by the output template of that stream, written by
\* this job, whatever files earlier jobs have left in the folder.
C28_LocatedFileIsOwn ==
    /\ video_file # NoPath
          => /\ video_file = JobPath \o <<"_temp_video", info[pick.video].ext>>
             /\ video_file \in written
    /\ audio_file # NoPath
          => /\ audio_file = JobPath \o <<"_temp_audio", info[pick.audio].ext>>
             /\ audio_file \in written

\* ---- C30 ----
\* a value with None read as 0
OrZero(x) == IF x = -1 THEN 0 ELSE x

\* C30: on every catalog, with values that are None and with ties on the
\* leading components of the keys, the selector returns: each slot holds a
\* format of the catalog or nothing, no exception ends the selection, and a
\* height that is None counts as 0 in the ranking of the video-only formats.
C30_SelectionTotal ==
    SelectEntered =>
        /\ "Select" \notin faults
        /\ pick.video \in 0..Len(info) /\ pick.audio \in 0..Len(info)
        /\ ~CombinedPreferred /\ VideoOnlyOf(info) # {}
              => /\ pick.video \in VideoOnlyOf(info)
                 /\ \A j \in VideoOnlyOf(info) :
                       OrZero(info[pick.video].height) >= OrZero(info[j].height)

\* ---- C31 ----
\* number of terminal signals (done, error) the worker has emitted
Terminals == Count("done") + Count("error")

\* C31: a run of DownloadThread (main_app.py) or SingleVideoDownloadThread
\* emits at most one terminal signal, done or error and never both; it has
\* emitted one exactly when run has returned, and after it the worker takes no
\* step: no progress value and no further signal is emitted.
C31_OneTerminalSignal ==
    /\ [](Single => /\ Terminals <= 1
                    /\ Terminals = 1 <=> pc = "finished")
    /\ [][Single /\ Terminals = 1
            => UNCHANGED <<pc, phases, signals, progress, prog_phase>>]_vars

\* a run that reported progress in its merge phase has ended with error
C31_Witness ==
    /\ Single /\ pc = "finished" /\ Count("error") = 1 /\ Count("done") = 0
    /\ prog_phase = "Merge"

\* ---- C32 ----
\* C32: in a run of the direct-download worker done is emitted at most once
\* and progress 100 at most once (the hook's 'finished' branch runs once, for
\* the whole download), and no run emits both done and error.
C32_DoneOnceAfterDownload ==
    variant = "direct" =>
        /\ Count("done") <= 1
        /\ StreamsFinished <= 1
        /\ ~(Count("done") >= 1 /\ Count("error") >= 1)

\* ---- C33 ----
\* the steps a job's status may take
StatusSteps == {<<"pending", "downloading">>, <<"downloading", "completed">>,
                <<"downloading", "error">>}

\* C33: the status of a job of the batch only moves pending -> downloading ->
\* (completed | error); a status of completed or error never changes again.
C33_StatusAbsorbing ==
    [][\A k \in DOMAIN playlist_videos :
          k \in DOMAIN playlist_videos' =>
             \/ playlist_videos'[k].status = playlist_videos[k].status
             \/ <<playlist_videos[k].status, playlist_videos'[k].status>> \in StatusSteps]_vars

\* ---- C34 ----
\* C34: a job of the batch has a file path exactly when its status is
\* completed, and the path of a completed job names a file that exists.
C34_PathOnlyWhenCompleted ==
    \A k \in Jobs :
        IF playlist_videos[k].status = "completed"
        THEN /\ playlist_videos[k].file_path # NoPath
             /\ Exists(fs, playlist_videos[k].file_path)
        ELSE playlist_videos[k].file_path = NoPath

\* ---- C35 ----
\* C35: two different jobs of a batch that were both reported completed were
\* reported with different file paths.
C35_DistinctOutputs ==
    \A g, h \in DOMAIN signals :
        /\ signals[g].sig = "video_completed" /\ signals[h].sig = "video_completed"
        /\ signals[g].job # signals[h].job
        => signals[g].path # signals[h].path

\* ---- C36 ----
\* C36: when a job is completed and no removal has failed, none of the
\* temporary stream files the job has written is left in the folder.
C36_NoTempLeft ==
    outcome = "Completed" /\ cleanup # "failed" => written \cap temp_files = {}

\* ---- C37 ----
\* the window has just handled playlist_completed and no stop was requested
CompletionHandled ==
    /\ handled > 0 /\ signals[handled].sig = "playlist_completed"
    /\ ~should_stop

\* C37: when playlist_completed is handled without a cancellation, every job
\* of the batch is completed or error, the counts shown add up to the total,
\* and the total is the number of jobs that were published.
C37_CountsAddUp ==
    CompletionHandled =>
        /\ \A k \in Jobs : playlist_videos[k].status \in {"completed", "error"}
        /\ CompletedCount + ErrorCount = TotalCount
        /\ TotalCount = N

\* ---- C38 ----
\* the run has returned after exactly one of playlist_completed and error, and
\* every published job is completed or error
BatchOver ==
    /\ pc = "finished"
    /\ Count("playlist_completed") + Count("error") = 1
    /\ \A k \in Jobs : playlist_videos[k].status \in {"completed", "error"}

\* C38: a run of PlaylistDownloadThread that is never cancelled and whose
\* blocking calls all return or raise eventually emits playlist_completed or
\* error, never more than one of them, and from then on every job it published
\* is completed or error.
C38_BatchTerminates ==
    /\ [](Count("playlist_completed") + Count("error") <= 1)
    /\ <>[]BatchOver

\* a batch of two jobs is over, one completed and one failed
C38_Witness ==
    /\ variant = "playlist" /\ ~should_stop /\ BatchOver /\ N = 2
    /\ Count("playlist_completed") = 1
    /\ Count("video_completed") = 1 /\ Count("video_error") = 1
    /\ handled = Len(signals)

\* ---- C39 ----
\* C39: a window has at most one download worker running at any time.
C39_OneWorker == Cardinality(RunningWorkers) <= 1

\* ---- C40 ----
\* C40: every clip in the list ends after it starts; set_end_time adds no clip
\* while no start is pending; the pending start is cleared by every step that
\* saves a clip and by every step that loads a video.
C40_ClipsWellFormed ==
    /\ [](\A k \in DOMAIN timestamps : FGt(timestamps[k][2], timestamps[k][1]))
    /\ [][/\ current_start = NoStart => Len(timestamps') <= Len(timestamps)
          /\ Len(timestamps') > Len(timestamps) => current_start' = NoStart
          /\ video_path' # video_path => current_start' = NoStart]_vars

====
